---- MODULE Spec2Model ----
(***************************************************************************)
(* SafeQR: the phishing-link heuristics of safeqr/security.py and the URL  *)
(* helpers of safeqr/utils/validators.py.                                  *)
(*                                                                         *)
(* A string is a sequence of Unicode code points (integers), so that       *)
(* ord(), case mapping, percent-escapes and code-point ranges are          *)
(* computed, not assumed.  Python's 0-based indices become 1-based; a      *)
(* search that finds nothing returns 0 where Python returns -1.            *)
(***************************************************************************)
EXTENDS Integers, Sequences, FiniteSets, TLC

(***************************************************************************)
(* Characters and strings (Python str)                                     *)
(***************************************************************************)

\* The printable ASCII characters in code-point order, U+0020 .. U+007E
\* (the grave accent, which a TLA+ string cannot hold, by its name).
AsciiChars ==
    << " ", "!", "\"", "#", "$", "%", "&", "'", "(", ")", "*", "+", ",", "-",
       ".", "/", "0", "1", "2", "3", "4", "5", "6", "7", "8", "9", ":", ";",
       "<", "=", ">", "?", "@", "A", "B", "C", "D", "E", "F", "G", "H", "I",
       "J", "K", "L", "M", "N", "O", "P", "Q", "R", "S", "T", "U", "V", "W",
       "X", "Y", "Z", "[", "\\", "]", "^", "_", "U+0060", "a", "b", "c", "d", "e",
       "f", "g", "h", "i", "j", "k", "l", "m", "n", "o", "p", "q", "r", "s",
       "t", "u", "v", "w", "x", "y", "z", "{", "|", "}", "~" >>

\* ord(c) of a printable ASCII character.
Ord(c) == 31 + (CHOOSE i \in 1..Len(AsciiChars) : AsciiChars[i] = c)

\* The str whose characters are the one-character strings of the tuple t.
S(t) == [i \in 1..Len(t) |-> Ord(t[i])]

MinOf(set) == CHOOSE x \in set : \A y \in set : x <= y

RECURSIVE Concat(_)
\* "".join(parts)
Concat(parts) ==
    IF Len(parts) = 0 THEN << >>
    ELSE IF Len(parts) = 1 THEN parts[1]
    ELSE LET half == Len(parts) \div 2
         IN Concat(SubSeq(parts, 1, half)) \o Concat(SubSeq(parts, half + 1, Len(parts)))

\* s[i-1:] of Python, for a 1-based i.
From(s, i) == SubSeq(s, i, Len(s))

\* str.find(sub, start): the first 1-based index >= from at which sub
\* occurs in s, 0 when it does not occur.
Find(s, sub, from) ==
    LET m == Len(sub)
        hits == {i \in from..(Len(s) - m + 1) :
                    \A k \in 1..m : s[i + k - 1] = sub[k]}
    IN IF hits = {} THEN 0 ELSE MinOf(hits)

\* sub in s
Contains(s, sub) == Find(s, sub, 1) # 0

\* c in s, for one character c
HasChar(s, c) == \E i \in 1..Len(s) : s[i] = c

\* str.rfind(c) for one character c
RFindChar(s, c) ==
    LET hits == {i \in 1..Len(s) : s[i] = c}
    IN IF hits = {} THEN 0 ELSE CHOOSE i \in hits : \A j \in hits : j <= i

StartsWith(s, p) == Len(p) <= Len(s) /\ SubSeq(s, 1, Len(p)) = p

EndsWith(s, p) ==
    Len(p) <= Len(s) /\ SubSeq(s, Len(s) - Len(p) + 1, Len(s)) = p

RECURSIVE Split(_, _)
\* s.split(c) for one character c: the list of the pieces between its occurrences.
Split(s, c) ==
    LET i == Find(s, <<c>>, 1)
    IN IF i = 0 THEN <<s>>
       ELSE <<SubSeq(s, 1, i - 1)>> \o Split(From(s, i + 1), c)

\* s.split(c, 1) / s.partition(c): <<before, after>>; after is empty when
\* c does not occur.
Split1(s, c) ==
    LET i == Find(s, <<c>>, 1)
    IN IF i = 0 THEN <<s, << >> >>
       ELSE <<SubSeq(s, 1, i - 1), From(s, i + 1)>>

\* s.replace(c, "") for a set of characters
Without(s, chars) == SelectSeq(s, LAMBDA c : c \notin chars)

IsAsciiUpper(c) == c \in 65..90
IsAsciiLower(c) == c \in 97..122
IsAsciiAlpha(c) == IsAsciiUpper(c) \/ IsAsciiLower(c)
IsAsciiDigit(c) == c \in 48..57
IsAscii(s) == \A i \in 1..Len(s) : s[i] < 128

\* str.lower() of one character, for the scripts of the model's alphabet:
\* ASCII, Latin-1, Latin Extended-A and -B (the accented letters), Greek,
\* Cyrillic, full-width Latin.  Any other code point is kept.  The context-dependent
\* lower-casing of the capital sigma (U+03A3) is not modelled: no input
\* holds it.
LowerChar(c) ==
    CASE IsAsciiUpper(c) -> c + 32
      [] c \in 192..222 /\ c # 215 -> c + 32
      [] c \in 256..311 /\ c % 2 = 0 /\ c # 304 -> c + 1
      [] c \in 313..328 /\ c % 2 = 1 -> c + 1
      [] c \in 330..375 /\ c % 2 = 0 -> c + 1
      [] c = 376 -> 255
      [] c \in 377..382 /\ c % 2 = 1 -> c + 1
      [] c \in 461..476 /\ c % 2 = 1 -> c + 1
      [] c \in 478..495 /\ c % 2 = 0 -> c + 1
      [] c = 500 -> 501
      [] c \in 504..543 /\ c % 2 = 0 -> c + 1
      [] c \in 546..563 /\ c % 2 = 0 -> c + 1
      [] c = 902 -> 940
      [] c \in 904..906 -> c + 37
      [] c = 908 -> 972
      [] c \in 910..911 -> c + 63
      [] c \in 913..939 /\ c # 930 -> c + 32
      [] c \in 1024..1039 -> c + 80
      [] c \in 1040..1071 -> c + 32
      [] c \in 1120..1153 /\ c % 2 = 0 -> c + 1
      [] c \in 1162..1215 /\ c % 2 = 0 -> c + 1
      [] c \in 1217..1230 /\ c % 2 = 1 -> c + 1
      [] c \in 1232..1279 /\ c % 2 = 0 -> c + 1
      [] c \in 7680..7829 /\ c % 2 = 0 -> c + 1
      [] c \in 7840..7935 /\ c % 2 = 0 -> c + 1
      [] c \in {8120, 8121, 8152, 8153, 8168, 8169} -> c - 8
      [] c \in 65313..65338 -> c + 32
      [] OTHER -> c

\* str.upper() of one letter of the Cyrillic and Greek tables.
UpperChar(c) ==
    CASE c \in 945..969 /\ c # 962 -> c - 32
      [] c \in 1072..1103 -> c - 32
      [] c \in 1104..1119 -> c - 80
      [] OTHER -> c

\* str.lower()
Lower(s) == [i \in 1..Len(s) |-> LowerChar(s[i])]

\* str.isalnum() of one character: ASCII letters and digits, and the
\* letters of Latin-1, Greek and Cyrillic.
IsAlnum(c) ==
    \/ IsAsciiAlpha(c) \/ IsAsciiDigit(c)
    \/ c \in 192..255 /\ c \notin {215, 247}
    \/ c \in 880..1023 /\ c \notin {884, 885, 888, 889, 894, 900, 901, 903, 907, 909, 930, 1014}
    \/ c \in 1024..1279 /\ c \notin 1154..1161

\* str.isspace() of one character
IsSpace(c) ==
    \/ c \in 9..13 \/ c \in 28..32
    \/ c \in {133, 160, 5760, 8232, 8233, 8239, 8287, 12288}
    \/ c \in 8192..8202

MaxOf(set) == CHOOSE x \in set : \A y \in set : y <= x

\* str.strip()
StrStrip(s) ==
    LET keep == {i \in 1..Len(s) : ~IsSpace(s[i])}
    IN IF keep = {} THEN << >> ELSE SubSeq(s, MinOf(keep), MaxOf(keep))

\* value of a hexadecimal digit, -1 for any other character
HexVal(c) ==
    CASE IsAsciiDigit(c) -> c - 48
      [] c \in 65..70 -> c - 55
      [] c \in 97..102 -> c - 87
      [] OTHER -> -1

\* the upper-case hexadecimal digit of a value 0..15
HexDigit(v) == IF v < 10 THEN 48 + v ELSE 55 + v

(***************************************************************************)
(* ipaddress.ip_address, as used by is_ip_address                          *)
(***************************************************************************)

\* IPv4Address._parse_octet succeeds: 1 to 3 ASCII digits, no leading
\* zero, at most 255.
OctetOk(o) ==
    /\ o # << >>
    /\ \A i \in 1..Len(o) : IsAsciiDigit(o[i])
    /\ Len(o) <= 3
    /\ (Len(o) > 1 => o[1] # 48)
    /\ (Len(o) = 3 => (o[1] - 48) * 100 + (o[2] - 48) * 10 + (o[3] - 48) <= 255)

\* IPv4Address(s) does not raise.
IsIPv4(s) ==
    /\ ~HasChar(s, 47)
    /\ s # << >>
    /\ LET octets == Split(s, 46)
       IN Len(octets) = 4 /\ \A i \in 1..4 : OctetOk(octets[i])

\* IPv6Address._parse_hextet succeeds: 1 to 4 hexadecimal digits.
HextetOk(h) ==
    /\ \A i \in 1..Len(h) : HexVal(h[i]) >= 0
    /\ Len(h) <= 4
    /\ h # << >>

\* IPv6Address._ip_int_from_string succeeds on the hextets `parts`, at
\* most one of them the empty string of a "::".
IPv6HextetsOk(parts) ==
    LET n == Len(parts)
        skips == {i \in 2..(n - 1) : parts[i] = << >>}
        skip_index == (CHOOSE i \in skips : TRUE) - 1
        hi0 == skip_index
        lo0 == n - skip_index - 1
        parts_hi == IF parts[1] = << >> THEN hi0 - 1 ELSE hi0
        parts_lo == IF parts[n] = << >> THEN lo0 - 1 ELSE lo0
    IN /\ n <= 9
       /\ Cardinality(skips) <= 1
       /\ IF skips # {}
          THEN /\ (parts[1] = << >> => parts_hi = 0)
               /\ (parts[n] = << >> => parts_lo = 0)
               /\ 8 - (parts_hi + parts_lo) >= 1
               /\ \A i \in 1..parts_hi : HextetOk(parts[i])
               /\ \A i \in (n - parts_lo + 1)..n : HextetOk(parts[i])
          ELSE /\ n = 8
               /\ \A i \in 1..n : HextetOk(parts[i])

\* ... on the pieces p0 between the colons: an IPv4 suffix becomes two
\* hextets.
IPv6ColonsOk(p0) ==
    LET v4 == HasChar(p0[Len(p0)], 46)
    IN /\ Len(p0) >= 3
       /\ (v4 => IsIPv4(p0[Len(p0)]))
       /\ IPv6HextetsOk(IF v4 THEN SubSeq(p0, 1, Len(p0) - 1) \o << <<48>>, <<48>> >>
                        ELSE p0)

\* ... on the address part.
IPv6PartsOk(a) == a # << >> /\ IPv6ColonsOk(Split(a, 58))

\* IPv6Address(s) does not raise: no '/', an optional non-empty %scope.
IsIPv6(s) ==
    LET pct == Find(s, <<37>>, 1)
        scope == From(s, pct + 1)
    IN /\ ~HasChar(s, 47)
       /\ (pct # 0 => scope # << >> /\ ~HasChar(scope, 37))
       /\ IPv6PartsOk(IF pct = 0 THEN s ELSE SubSeq(s, 1, pct - 1))

\* ipaddress.ip_address(s) does not raise ValueError.
IpAddressOk(s) == IsIPv4(s) \/ IsIPv6(s)

(***************************************************************************)
(* unicodedata.normalize.  The character data (Unicode 14) of the model's  *)
(* alphabet: ASCII, the Cyrillic and Greek letters of the homoglyph tables *)
(* in both cases, the combining acute accent, breve and diaeresis          *)
(* (U+0301, U+0306, U+0308), every letter these compose to, and four       *)
(* compatibility characters.  The alphabet is closed under decomposition,  *)
(* composition and lower-casing, so the normal forms below are exact on    *)
(* every string over it; a code point outside it has no mapping here.      *)
(***************************************************************************)

\* UnicodeData.txt, field 5: the decomposition mapping of a code point.
DecompTable ==
    (193 :> <<65, 769>>) @@ (196 :> <<65, 776>>) @@ (201 :> <<69, 769>>) @@
    (203 :> <<69, 776>>) @@ (205 :> <<73, 769>>) @@ (207 :> <<73, 776>>) @@
    (211 :> <<79, 769>>) @@ (214 :> <<79, 776>>) @@ (218 :> <<85, 769>>) @@
    (220 :> <<85, 776>>) @@ (221 :> <<89, 769>>) @@ (225 :> <<97, 769>>) @@
    (228 :> <<97, 776>>) @@ (233 :> <<101, 769>>) @@ (235 :> <<101, 776>>) @@
    (237 :> <<105, 769>>) @@ (239 :> <<105, 776>>) @@
    (243 :> <<111, 769>>) @@ (246 :> <<111, 776>>) @@
    (250 :> <<117, 769>>) @@ (252 :> <<117, 776>>) @@
    (253 :> <<121, 769>>) @@ (255 :> <<121, 776>>) @@ (258 :> <<65, 774>>) @@
    (259 :> <<97, 774>>) @@ (262 :> <<67, 769>>) @@ (263 :> <<99, 769>>) @@
    (276 :> <<69, 774>>) @@ (277 :> <<101, 774>>) @@ (286 :> <<71, 774>>) @@
    (287 :> <<103, 774>>) @@ (300 :> <<73, 774>>) @@ (301 :> <<105, 774>>) @@
    (313 :> <<76, 769>>) @@ (314 :> <<108, 769>>) @@ (323 :> <<78, 769>>) @@
    (324 :> <<110, 769>>) @@ (334 :> <<79, 774>>) @@ (335 :> <<111, 774>>) @@
    (340 :> <<82, 769>>) @@ (341 :> <<114, 769>>) @@ (346 :> <<83, 769>>) @@
    (347 :> <<115, 769>>) @@ (364 :> <<85, 774>>) @@ (365 :> <<117, 774>>) @@
    (376 :> <<89, 776>>) @@ (377 :> <<90, 769>>) @@ (378 :> <<122, 769>>) @@
    (471 :> <<220, 769>>) @@ (472 :> <<252, 769>>) @@ (500 :> <<71, 769>>) @@
    (501 :> <<103, 769>>) @@ (902 :> <<913, 769>>) @@
    (904 :> <<917, 769>>) @@ (905 :> <<919, 769>>) @@
    (906 :> <<921, 769>>) @@ (908 :> <<927, 769>>) @@
    (910 :> <<933, 769>>) @@ (911 :> <<937, 769>>) @@
    (912 :> <<970, 769>>) @@ (938 :> <<921, 776>>) @@
    (939 :> <<933, 776>>) @@ (940 :> <<945, 769>>) @@
    (941 :> <<949, 769>>) @@ (942 :> <<951, 769>>) @@
    (943 :> <<953, 769>>) @@ (944 :> <<971, 769>>) @@
    (970 :> <<953, 776>>) @@ (971 :> <<965, 776>>) @@
    (972 :> <<959, 769>>) @@ (973 :> <<965, 769>>) @@
    (974 :> <<969, 769>>) @@ (1025 :> <<1045, 776>>) @@
    (1027 :> <<1043, 769>>) @@ (1036 :> <<1050, 769>>) @@
    (1038 :> <<1059, 774>>) @@ (1049 :> <<1048, 774>>) @@
    (1081 :> <<1080, 774>>) @@ (1105 :> <<1077, 776>>) @@
    (1107 :> <<1075, 769>>) @@ (1116 :> <<1082, 769>>) @@
    (1118 :> <<1091, 774>>) @@ (1217 :> <<1046, 774>>) @@
    (1218 :> <<1078, 774>>) @@ (1232 :> <<1040, 774>>) @@
    (1233 :> <<1072, 774>>) @@ (1234 :> <<1040, 776>>) @@
    (1235 :> <<1072, 776>>) @@ (1238 :> <<1045, 774>>) @@
    (1239 :> <<1077, 774>>) @@ (1244 :> <<1046, 776>>) @@
    (1245 :> <<1078, 776>>) @@ (1246 :> <<1047, 776>>) @@
    (1247 :> <<1079, 776>>) @@ (1252 :> <<1048, 776>>) @@
    (1253 :> <<1080, 776>>) @@ (1254 :> <<1054, 776>>) @@
    (1255 :> <<1086, 776>>) @@ (1260 :> <<1069, 776>>) @@
    (1261 :> <<1101, 776>>) @@ (1264 :> <<1059, 776>>) @@
    (1265 :> <<1091, 776>>) @@ (1268 :> <<1063, 776>>) @@
    (1269 :> <<1095, 776>>) @@ (1272 :> <<1067, 776>>) @@
    (1273 :> <<1099, 776>>) @@ (7718 :> <<72, 776>>) @@
    (7719 :> <<104, 776>>) @@ (7726 :> <<207, 769>>) @@
    (7727 :> <<239, 769>>) @@ (7728 :> <<75, 769>>) @@
    (7729 :> <<107, 769>>) @@ (7742 :> <<77, 769>>) @@
    (7743 :> <<109, 769>>) @@ (7764 :> <<80, 769>>) @@
    (7765 :> <<112, 769>>) @@ (7810 :> <<87, 769>>) @@
    (7811 :> <<119, 769>>) @@ (7812 :> <<87, 776>>) @@
    (7813 :> <<119, 776>>) @@ (7820 :> <<88, 776>>) @@
    (7821 :> <<120, 776>>) @@ (7831 :> <<116, 776>>) @@
    (7854 :> <<258, 769>>) @@ (7855 :> <<259, 769>>) @@
    (8112 :> <<945, 774>>) @@ (8120 :> <<913, 774>>) @@
    (8144 :> <<953, 774>>) @@ (8152 :> <<921, 774>>) @@
    (8160 :> <<965, 774>>) @@ (8168 :> <<933, 774>>) @@
    (8448 :> <<97, 47, 99>>) @@ (64257 :> <<102, 105>>) @@
    (65294 :> <<46>>) @@ (65345 :> <<97>>)

\* The mappings tagged <compat> (U+2100, U+FB01, U+FF0E, U+FF41); the
\* others are canonical.
CompatChars == {8448, 64257, 65294, 65345}

\* Canonical_Combining_Class: 230 for the three combining marks.
CombiningClass(c) == IF c \in {769, 774, 776} THEN 230 ELSE 0

RECURSIVE Decompose(_, _)
\* The full decomposition of a string: canonical only, or (compat = TRUE)
\* compatibility as well.  Marks of one combining class are never
\* reordered, so this is already in canonical order.
Decompose(s, compat) ==
    LET Expand(table) ==
            LET mapped == {i \in 1..Len(s) :
                              s[i] \in DOMAIN table /\ (compat \/ s[i] \notin CompatChars)}
                i == MinOf(mapped)
            IN IF mapped = {} THEN s
               ELSE SubSeq(s, 1, i - 1)
                        \o Decompose(table[s[i]] \o From(s, i + 1), compat)
    IN Expand(DecompTable)

\* The primary composites: starter + mark -> letter (none of the table's
\* canonical pairs is a composition exclusion).
CompositionTable ==
    LET Invert(table) ==
            LET comps == {c \in DOMAIN table : c \notin CompatChars /\ Len(table[c]) = 2}
            IN [p \in {table[c] : c \in comps} |-> CHOOSE c \in comps : table[c] = p]
    IN Invert(DecompTable)

\* The primary composite of a starter and a mark, 0 when there is none.
Composite(pair) ==
    LET Lookup(table) == IF pair \in DOMAIN table THEN table[pair] ELSE 0
    IN Lookup(CompositionTable)

RECURSIVE ComposeFrom(_, _, _, _)
\* Canonical composition: out is the text composed so far, starter the
\* index in out of the last starter (0: none), last the combining class
\* of the last character kept after it (-1: the starter itself is last).
ComposeFrom(s, out, starter, last) ==
    IF s = << >> THEN out
    ELSE LET c == Head(s)
             cc == CombiningClass(c)
             blocked == last # -1 /\ (last >= cc \/ last = 0)
             Step(composite) ==
                 IF starter # 0 /\ ~blocked /\ composite # 0
                 THEN ComposeFrom(Tail(s), [out EXCEPT ![starter] = composite],
                                  starter, last)
                 ELSE IF cc = 0
                 THEN ComposeFrom(Tail(s), Append(out, c), Len(out) + 1, -1)
                 ELSE ComposeFrom(Tail(s), Append(out, c), starter, cc)
         IN Step(IF starter = 0 THEN 0 ELSE Composite(<<out[starter], c>>))

\* unicodedata.normalize("NFKD", s)
NFKD(s) == Decompose(s, TRUE)

\* unicodedata.normalize("NFKC", s): the decomposition, composed.  Every
\* composition is of a starter with a mark, so the text is composed one
\* starter and its marks at a time.
NFKC(s) ==
    LET Compose(d) ==
            LET starts == {i \in 1..Len(d) : i = 1 \/ CombiningClass(d[i]) = 0}
                next(i) == MinOf({j \in starts : j > i} \cup {Len(d) + 1})
            IN Concat([i \in 1..Len(d) |->
                          IF i \in starts
                          THEN ComposeFrom(SubSeq(d, i, next(i) - 1), << >>, 0, -1)
                          ELSE << >>])
    IN Compose(Decompose(s, TRUE))

(***************************************************************************)
(* urllib.parse: urlsplit, urlunsplit, unquote, quote                      *)
(***************************************************************************)

\* urllib.parse.scheme_chars: letters, digits and "+-."
IsSchemeChar(c) == IsAsciiAlpha(c) \/ IsAsciiDigit(c) \/ c \in {43, 45, 46}

\* urllib.parse.uses_netloc
UsesNetloc ==
    { << >>,
      S(<<"f","t","p">>), S(<<"h","t","t","p">>), S(<<"g","o","p","h","e","r">>),
      S(<<"n","n","t","p">>), S(<<"t","e","l","n","e","t">>), S(<<"i","m","a","p">>),
      S(<<"w","a","i","s">>), S(<<"f","i","l","e">>), S(<<"m","m","s">>),
      S(<<"h","t","t","p","s">>), S(<<"s","h","t","t","p">>),
      S(<<"s","n","e","w","s">>), S(<<"p","r","o","s","p","e","r","o">>),
      S(<<"r","t","s","p">>), S(<<"r","t","s","p","u">>), S(<<"r","s","y","n","c">>),
      S(<<"s","v","n">>), S(<<"s","v","n","+","s","s","h">>), S(<<"s","f","t","p">>),
      S(<<"n","f","s">>), S(<<"g","i","t">>), S(<<"g","i","t","+","s","s","h">>),
      S(<<"w","s">>), S(<<"w","s","s">>) }

\* _check_bracketed_host does not raise: an IPvFuture literal
\* (v<hex>+.<anything>) or an IPv6 address; an IPv4 address in brackets raises.
BracketedHostOk(h) ==
    IF StartsWith(h, <<118>>)
    THEN LET dot == Find(h, <<46>>, 1)
         IN /\ dot >= 3
            /\ \A i \in 2..(dot - 1) : HexVal(h[i]) >= 0
            /\ dot < Len(h)
    ELSE IpAddressOk(h) /\ ~IsIPv4(h)

\* _checknetloc does not raise: a non-ASCII netloc must not gain one of
\* "/?#@:" under NFKC.
CheckNetlocOk(netloc) ==
    LET Same(n, netloc2) ==
            n = netloc2 \/ \A c \in {47, 63, 35, 64, 58} : ~HasChar(netloc2, c)
        Check(n) == Same(n, NFKC(n))
    IN \/ netloc = << >>
       \/ IsAscii(netloc)
       \/ Check(Without(netloc, {64, 58, 35, 63}))

\* _splitnetloc(url, 2): the 1-based index of the first of "/?#" at or
\* after index 3, Len(url) + 1 when there is none.
NetlocEnd(url) ==
    LET ds == {i \in 3..Len(url) : url[i] \in {47, 63, 35}}
    IN IF ds = {} THEN Len(url) + 1 ELSE MinOf(ds)

\* urlsplit(url), after the scheme and the netloc have been split off:
\* the bracket checks, the fragment, the query and _checknetloc.
SplitRest(scheme, hasNetloc, netloc, url3) ==
    LET open == HasChar(netloc, 91)
        close == HasChar(netloc, 93)
        bracketed == Split1(Split1(netloc, 91)[2], 93)[1]
        hash == Find(url3, <<35>>, 1)
        url4 == IF hash = 0 THEN url3 ELSE SubSeq(url3, 1, hash - 1)
        fragment == IF hash = 0 THEN << >> ELSE From(url3, hash + 1)
        qm == Find(url4, <<63>>, 1)
        path == IF qm = 0 THEN url4 ELSE SubSeq(url4, 1, qm - 1)
        query == IF qm = 0 THEN << >> ELSE From(url4, qm + 1)
        raised == \/ hasNetloc /\ open /\ ~close
                  \/ hasNetloc /\ close /\ ~open
                  \/ hasNetloc /\ open /\ close /\ ~BracketedHostOk(bracketed)
                  \/ ~CheckNetlocOk(netloc)
    IN [raised |-> raised, scheme |-> scheme, netloc |-> netloc,
        path |-> path, query |-> query, fragment |-> fragment]

\* urlsplit(url), after the scheme has been split off: the netloc of a
\* URL that goes on with "//".
SplitNetloc(scheme, url2) ==
    LET hasNetloc == StartsWith(url2, <<47, 47>>)
        delim == NetlocEnd(url2)
    IN SplitRest(scheme, hasNetloc,
                 IF hasNetloc THEN SubSeq(url2, 3, delim - 1) ELSE << >>,
                 IF hasNetloc THEN From(url2, delim) ELSE url2)

\* urlsplit(url), after the leading controls and spaces and every tab and
\* line break have been removed: the scheme.
SplitScheme(url1) ==
    LET i == Find(url1, <<58>>, 1)
        hasScheme == /\ i > 1
                     /\ IsAsciiAlpha(url1[1])
                     /\ \A k \in 1..(i - 1) : IsSchemeChar(url1[k])
    IN SplitNetloc(IF hasScheme THEN Lower(SubSeq(url1, 1, i - 1)) ELSE << >>,
                   IF hasScheme THEN From(url1, i + 1) ELSE url1)

\* urlsplit(url): the five components, or raised = TRUE for the ValueError
\* of an unbalanced or invalid bracketed host or a netloc that NFKC turns
\* into a delimiter.
UrlSplit(url0) ==
    LET ctl == {i \in 1..Len(url0) : url0[i] > 32}
    IN SplitScheme(Without(IF ctl = {} THEN << >> ELSE From(url0, MinOf(ctl)),
                           {9, 10, 13}))

\* urlunsplit((scheme, netloc, url, query, fragment))
UrlUnsplit(scheme, netloc, path, query, fragment) ==
    LET withNetloc ==
            \/ netloc # << >>
            \/ scheme # << >> /\ scheme \in UsesNetloc
                              /\ ~StartsWith(path, <<47, 47>>)
        AddFragment(url3) ==
            IF fragment # << >> THEN url3 \o <<35>> \o fragment ELSE url3
        AddQuery(url2) ==
            AddFragment(IF query # << >> THEN url2 \o <<63>> \o query ELSE url2)
        AddScheme(url1) ==
            AddQuery(IF scheme # << >> THEN scheme \o <<58>> \o url1 ELSE url1)
    IN AddScheme(IF withNetloc
                 THEN <<47, 47>> \o netloc \o
                      (IF path # << >> /\ path[1] # 47 THEN <<47>> ELSE << >>) \o path
                 ELSE path)

\* unquote_to_bytes on an ASCII run: each %XX with two hexadecimal digits
\* becomes the byte XX, anything else is kept.
UnquoteToBytes(s) ==
    LET esc(i) == /\ i >= 1 /\ i + 2 <= Len(s) /\ s[i] = 37
                  /\ HexVal(s[i + 1]) >= 0 /\ HexVal(s[i + 2]) >= 0
    IN Concat([i \in 1..Len(s) |->
                  IF esc(i) THEN <<16 * HexVal(s[i + 1]) + HexVal(s[i + 2])>>
                  ELSE IF esc(i - 1) \/ esc(i - 2) THEN << >>
                  ELSE <<s[i]>>])

\* bytes 128..191 continue a UTF-8 sequence
IsCont(b) == b \in 128..191

\* the range of the second byte of a UTF-8 sequence led by b
SecondOk(b, c) ==
    CASE b = 224 -> c \in 160..191
      [] b = 237 -> c \in 128..159
      [] b = 240 -> c \in 144..191
      [] b = 244 -> c \in 128..143
      [] OTHER -> IsCont(c)

RECURSIVE Utf8Decode(_)
\* bytes.decode("utf-8", "replace"): U+FFFD for each maximal ill-formed
\* subsequence.
Utf8Decode(b) ==
    IF b = << >> THEN << >>
    ELSE LET b1 == b[1]
             need == CASE b1 < 128 -> 0
                       [] b1 \in 194..223 -> 1
                       [] b1 \in 224..239 -> 2
                       [] b1 \in 240..244 -> 3
                       [] OTHER -> -1
             ok(k) == /\ Len(b) >= 1 + k
                      /\ IF k = 1 THEN SecondOk(b1, b[2]) ELSE IsCont(b[1 + k])
             got == IF need < 1 THEN 0
                    ELSE IF ~ok(1) THEN 0
                    ELSE IF need = 1 \/ ~ok(2) THEN 1
                    ELSE IF need = 2 \/ ~ok(3) THEN 2
                    ELSE 3
             high == {i \in 1..Len(b) : b[i] >= 128}
         IN CASE need = 0 /\ high = {} -> b
              [] need = 0 /\ high # {} ->
                    SubSeq(b, 1, MinOf(high) - 1) \o Utf8Decode(From(b, MinOf(high)))
              [] need = -1 -> <<65533>> \o Utf8Decode(Tail(b))
              [] got < need -> <<65533>> \o Utf8Decode(From(b, 2 + got))
              [] need = 1 ->
                    <<(b1 - 192) * 64 + (b[2] - 128)>> \o Utf8Decode(From(b, 3))
              [] need = 2 ->
                    <<(b1 - 224) * 4096 + (b[2] - 128) * 64 + (b[3] - 128)>>
                        \o Utf8Decode(From(b, 4))
              [] OTHER ->
                    <<(b1 - 240) * 262144 + (b[2] - 128) * 4096
                         + (b[3] - 128) * 64 + (b[4] - 128)>>
                        \o Utf8Decode(From(b, 5))

RECURSIVE Unquote(_)
\* unquote(string): the ASCII runs are unquoted to bytes and decoded as
\* UTF-8, the other characters are kept.
Unquote(s) ==
    IF ~HasChar(s, 37) THEN s
    ELSE LET nonascii == {i \in 1..Len(s) : s[i] >= 128}
         IN IF nonascii = {}
            THEN Utf8Decode(UnquoteToBytes(s))
            ELSE LET i == MinOf(nonascii)
                     after == From(s, i + 1)
                 IN Utf8Decode(UnquoteToBytes(SubSeq(s, 1, i - 1))) \o <<s[i]>>
                        \o (IF after = << >> THEN << >>
                            ELSE IF HasChar(after, 37) THEN Unquote(after)
                            ELSE after)

\* str.encode("utf-8") of one code point
Utf8Encode(c) ==
    CASE c < 128 -> <<c>>
      [] c < 2048 -> <<192 + (c \div 64), 128 + (c % 64)>>
      [] c < 65536 -> <<224 + (c \div 4096), 128 + ((c \div 64) % 64), 128 + (c % 64)>>
      [] OTHER -> <<240 + (c \div 262144), 128 + ((c \div 4096) % 64),
                    128 + ((c \div 64) % 64), 128 + (c % 64)>>

\* quote's always-safe characters: letters, digits and "_.-~"
AlwaysSafe(b) == IsAsciiAlpha(b) \/ IsAsciiDigit(b) \/ b \in {95, 46, 45, 126}

\* quote(string, safe=safe): every UTF-8 byte that is neither always safe
\* nor in safe becomes %XX with upper-case hexadecimal digits.
Quote(s, safe) ==
    LET Escape(bytes) ==
            Concat([i \in 1..Len(bytes) |->
                       IF AlwaysSafe(bytes[i]) \/ bytes[i] \in safe THEN <<bytes[i]>>
                       ELSE <<37, HexDigit(bytes[i] \div 16), HexDigit(bytes[i] % 16)>>])
    IN Escape(Concat([i \in 1..Len(s) |-> Utf8Encode(s[i])]))

(***************************************************************************)
(* The "punycode" and "idna" codecs, as used by to_unicode_domain          *)
(***************************************************************************)

\* punycode.T(j, bias): the threshold of digit j (tmin = 1, tmax = 26)
PunyT(j, bias) ==
    LET res == 36 * (j + 1) - bias
    IN IF res < 1 THEN 1 ELSE IF res > 26 THEN 26 ELSE res

RECURSIVE PunyDamp(_, _)
\* the loop of punycode.adapt: <<delta, divisions>>
PunyDamp(delta, divisions) ==
    IF delta > 455 THEN PunyDamp(delta \div 35, divisions + 36)
    ELSE <<delta, divisions>>

\* punycode.adapt(delta, first, numchars)
PunyAdapt(delta, first, numchars) ==
    LET d1 == IF first THEN delta \div 700 ELSE delta \div 2
        d2 == d1 + (d1 \div numchars)
        r == PunyDamp(d2, 0)
    IN r[2] + ((36 * r[1]) \div (r[1] + 38))

RECURSIVE DecodeGeneralizedNumber(_, _, _, _, _, _)
\* punycode.decode_generalized_number (errors = "strict"): ok = FALSE for
\* an incomplete string or an invalid digit.
DecodeGeneralizedNumber(extended, extpos, bias, result, w, j) ==
    IF extpos > Len(extended) THEN [ok |-> FALSE, pos |-> extpos, value |-> 0]
    ELSE LET char == extended[extpos]
             digit == CASE char \in 65..90 -> char - 65
                        [] char \in 48..57 -> char - 22
                        [] OTHER -> -1
             t == PunyT(j, bias)
         IN IF digit < 0 THEN [ok |-> FALSE, pos |-> extpos + 1, value |-> 0]
            ELSE IF digit < t
            THEN [ok |-> TRUE, pos |-> extpos + 1, value |-> result + digit * w]
            ELSE DecodeGeneralizedNumber(extended, extpos + 1, bias,
                                         result + digit * w, w * (36 - t), j + 1)

RECURSIVE InsertionSort(_, _, _, _, _, _)
\* punycode.insertion_sort (errors = "strict"); pos is Python's pos.
InsertionSort(base, extended, extpos, char, pos, bias) ==
    IF extpos > Len(extended) THEN [ok |-> TRUE, text |-> base]
    ELSE LET d == DecodeGeneralizedNumber(extended, extpos, bias, 0, 1, 0)
             pos1 == pos + d.value + 1
             char1 == char + (pos1 \div (Len(base) + 1))
             pos2 == pos1 % (Len(base) + 1)
             base1 == SubSeq(base, 1, pos2) \o <<char1>> \o From(base, pos2 + 1)
         IN IF ~d.ok \/ char1 > 1114111 THEN [ok |-> FALSE, text |-> base]
            ELSE InsertionSort(base1, extended, d.pos, char1, pos2,
                               PunyAdapt(d.value, extpos = 1, Len(base1)))

\* str.upper() of an ASCII string
AsciiUpper(s) == [i \in 1..Len(s) |-> IF IsAsciiLower(s[i]) THEN s[i] - 32 ELSE s[i]]

\* punycode_decode(text, "strict")
PunycodeDecode(text) ==
    LET pos == RFindChar(text, 45)
        base == IF pos = 0 THEN << >> ELSE SubSeq(text, 1, pos - 1)
        extended == AsciiUpper(From(text, pos + 1))
    IN InsertionSort(base, extended, 1, 128, -1, 72)

RECURSIVE GenerateGeneralizedInteger(_, _, _)
\* punycode.generate_generalized_integer(N, bias), digits a-z0-9
GenerateGeneralizedInteger(N, bias, j) ==
    LET t == PunyT(j, bias)
        dig(v) == IF v < 26 THEN 97 + v ELSE 48 + (v - 26)
    IN IF N < t THEN <<dig(N)>>
       ELSE <<dig(t + ((N - t) % (36 - t)))>>
                \o GenerateGeneralizedInteger((N - t) \div (36 - t), bias, j + 1)

\* punycode.insertion_unsort(str, extended): the deltas, one for each
\* non-ASCII character of str, by increasing code point and then position;
\* each is the index among the characters not above it (selective_find).
InsertionUnsort(str) ==
    LET ext == {i \in 1..Len(str) : str[i] >= 128}
        Before(i, k) == str[i] < str[k] \/ (str[i] = str[k] /\ i < k)
        order == [n \in 1..Cardinality(ext) |->
                     CHOOSE k \in ext : Cardinality({i \in ext : Before(i, k)}) = n - 1]
        index(k) == Cardinality({q \in 1..(k - 1) : str[q] <= str[k]})
        curlen(k) == Cardinality({q \in 1..Len(str) : str[q] < str[k]})
        oldchar(n) == IF n = 1 THEN 128 ELSE str[order[n - 1]]
        oldindex(n) == IF n = 1 THEN -1 ELSE index(order[n - 1])
    IN [n \in 1..Cardinality(ext) |->
           (curlen(order[n]) + 1) * (str[order[n]] - oldchar(n))
               + index(order[n]) - oldindex(n) - 1]

RECURSIVE GenerateIntegers(_, _, _, _)
\* punycode.generate_integers(baselen, deltas)
GenerateIntegers(baselen, deltas, points, bias) ==
    IF points > Len(deltas) THEN << >>
    ELSE GenerateGeneralizedInteger(deltas[points], bias, 0)
             \o GenerateIntegers(baselen, deltas, points + 1,
                                 PunyAdapt(deltas[points], points = 1, baselen + points))

\* punycode_encode(text)
PunycodeEncode(text) ==
    LET base == SelectSeq(text, LAMBDA c : c < 128)
        extended == GenerateIntegers(Len(base), InsertionUnsort(text), 1, 72)
    IN IF base # << >> THEN base \o <<45>> \o extended ELSE extended

\* "xn--"
AcePrefix == <<120, 110, 45, 45>>

\* idna.nameprep over the model's alphabet: the case folding of table B.2
\* (the final sigma folds to sigma), then NFKC; the alphabet holds no
\* prohibited and no right-to-left character.
Nameprep(label) ==
    NFKC([i \in 1..Len(label) |-> IF label[i] = 962 THEN 963 ELSE LowerChar(label[i])])

\* idna.ToASCII(label): ok = FALSE where it raises UnicodeError.  C0 and C1
\* controls (table C.2.2) are prohibited by nameprep.
ToASCII(label) ==
    LET sized(l) == [ok |-> Len(l) \in 1..63, text |-> l]
        Encode(prepped) ==
            IF \E i \in 1..Len(prepped) : prepped[i] \in 128..159
            THEN [ok |-> FALSE, text |-> label]
            ELSE IF IsAscii(prepped) THEN sized(prepped)
            ELSE IF StartsWith(prepped, AcePrefix) THEN [ok |-> FALSE, text |-> prepped]
            ELSE sized(AcePrefix \o PunycodeEncode(prepped))
    IN IF IsAscii(label) THEN sized(label) ELSE Encode(Nameprep(label))

\* idna.ToUnicode(label) of an ASCII label: ok = FALSE where it raises.
ToUnicode(label) ==
    LET RoundTrip(result, label2) ==
            IF result.ok /\ label2.ok /\ Lower(label) = label2.text
            THEN [ok |-> TRUE, text |-> result.text]
            ELSE [ok |-> FALSE, text |-> label]
        Decoded(result) == RoundTrip(result, ToASCII(result.text))
    IN IF ~StartsWith(label, AcePrefix) THEN [ok |-> TRUE, text |-> label]
       ELSE Decoded(PunycodeDecode(From(label, 5)))

RECURSIVE JoinDot(_)
\* ".".join(labels)
JoinDot(labels) ==
    IF labels = << >> THEN << >>
    ELSE IF Len(labels) = 1 THEN labels[1]
    ELSE labels[1] \o <<46>> \o JoinDot(Tail(labels))

\* bytes.decode("idna") of an ASCII domain: ok = FALSE where it raises.
IdnaDecode(input) ==
    IF input = << >> \/ ~Contains(input, AcePrefix) THEN [ok |-> TRUE, text |-> input]
    ELSE LET Joined(decoded, trailing) ==
                 IF \E i \in 1..Len(decoded) : ~decoded[i].ok
                 THEN [ok |-> FALSE, text |-> input]
                 ELSE [ok |-> TRUE,
                       text |-> JoinDot([i \in 1..Len(decoded) |-> decoded[i].text])
                                    \o (IF trailing THEN <<46>> ELSE << >>)]
             Labels(all) ==
                 LET trailing == all[Len(all)] = << >>
                     labels == IF trailing THEN SubSeq(all, 1, Len(all) - 1) ELSE all
                 IN Joined([i \in 1..Len(labels) |-> ToUnicode(labels[i])], trailing)
         IN Labels(Split(input, 46))

(***************************************************************************)
(* safeqr/utils/validators.py                                              *)
(***************************************************************************)

\* _ASCII_CONFUSABLES: "0"->"o", "1"->"l", "3"->"e", "4"->"a", "5"->"s",
\* "6"->"g", "7"->"t", "8"->"b", "9"->"g", "@"->"a"
ASCII_CONFUSABLES ==
    (48 :> S(<<"o">>)) @@ (49 :> S(<<"l">>)) @@ (51 :> S(<<"e">>)) @@
    (52 :> S(<<"a">>)) @@ (53 :> S(<<"s">>)) @@ (54 :> S(<<"g">>)) @@
    (55 :> S(<<"t">>)) @@ (56 :> S(<<"b">>)) @@ (57 :> S(<<"g">>)) @@
    (64 :> S(<<"a">>))

\* _CYR_TO_LATIN, keyed by code point: U+0430 (a) .. U+044F (ya), U+0451 (yo)
CYR_TO_LATIN ==
    (1072 :> S(<<"a">>)) @@ (1073 :> S(<<"b">>)) @@ (1074 :> S(<<"v">>)) @@
    (1075 :> S(<<"g">>)) @@ (1076 :> S(<<"d">>)) @@ (1077 :> S(<<"e">>)) @@
    (1105 :> S(<<"e">>)) @@ (1078 :> S(<<"z","h">>)) @@ (1079 :> S(<<"z">>)) @@
    (1080 :> S(<<"i">>)) @@ (1081 :> S(<<"i">>)) @@ (1082 :> S(<<"k">>)) @@
    (1083 :> S(<<"l">>)) @@ (1084 :> S(<<"m">>)) @@ (1085 :> S(<<"n">>)) @@
    (1086 :> S(<<"o">>)) @@ (1087 :> S(<<"p">>)) @@ (1088 :> S(<<"r">>)) @@
    (1089 :> S(<<"s">>)) @@ (1090 :> S(<<"t">>)) @@ (1091 :> S(<<"u">>)) @@
    (1092 :> S(<<"f">>)) @@ (1093 :> S(<<"h">>)) @@ (1094 :> S(<<"c">>)) @@
    (1095 :> S(<<"c","h">>)) @@ (1096 :> S(<<"s","h">>)) @@
    (1097 :> S(<<"s","h">>)) @@ (1098 :> << >>) @@ (1099 :> S(<<"y">>)) @@
    (1100 :> << >>) @@ (1101 :> S(<<"e">>)) @@ (1102 :> S(<<"y","u">>)) @@
    (1103 :> S(<<"y","a">>))

\* _GREEK_TO_LATIN, keyed by code point: U+03B1 (alpha) .. U+03C9 (omega),
\* without the final sigma U+03C2
GREEK_TO_LATIN ==
    (945 :> S(<<"a">>)) @@ (946 :> S(<<"b">>)) @@ (947 :> S(<<"g">>)) @@
    (948 :> S(<<"d">>)) @@ (949 :> S(<<"e">>)) @@ (950 :> S(<<"z">>)) @@
    (951 :> S(<<"e">>)) @@ (952 :> S(<<"t","h">>)) @@ (953 :> S(<<"i">>)) @@
    (954 :> S(<<"k">>)) @@ (955 :> S(<<"l">>)) @@ (956 :> S(<<"m">>)) @@
    (957 :> S(<<"n">>)) @@ (958 :> S(<<"x">>)) @@ (959 :> S(<<"o">>)) @@
    (960 :> S(<<"p">>)) @@ (961 :> S(<<"r">>)) @@ (963 :> S(<<"s">>)) @@
    (964 :> S(<<"t">>)) @@ (965 :> S(<<"y">>)) @@ (966 :> S(<<"f">>)) @@
    (967 :> S(<<"x">>)) @@ (968 :> S(<<"p","s">>)) @@ (969 :> S(<<"o">>))

\* _UNICODE_CONFUSABLES: every letter of the two tables and its upper-case
\* form, with the same mapping.
UNICODE_CONFUSABLES ==
    LET WithUppers(lower) ==
            LET uppers == {UpperChar(k) : k \in DOMAIN lower} \ DOMAIN lower
            IN [c \in DOMAIN lower \cup uppers |->
                   IF c \in DOMAIN lower THEN lower[c]
                   ELSE lower[CHOOSE k \in DOMAIN lower : UpperChar(k) = c]]
    IN WithUppers(CYR_TO_LATIN @@ GREEK_TO_LATIN)

\* is_ip_address(value)
is_ip_address(value) == IpAddressOk(value)

\* contains_punycode(domain)
contains_punycode(domain) ==
    LET parts == Split(Lower(domain), 46)
    IN \E i \in 1..Len(parts) : StartsWith(parts[i], AcePrefix)

\* to_unicode_domain(domain): the IDNA decoding of an ASCII domain, the
\* domain itself when it is not ASCII or the decoding raises.
to_unicode_domain(domain) ==
    IF ~IsAscii(domain) THEN domain ELSE IdnaDecode(domain).text

\* normalize_url(url): raised = TRUE where urlsplit raises ValueError.
normalize_url(url0) ==
    LET Rebuild(parsed) ==
            LET scheme == IF parsed.scheme # << >> THEN Lower(parsed.scheme)
                          ELSE S(<<"h","t","t","p","s">>)
                netloc == IF parsed.netloc # << >> THEN parsed.netloc ELSE parsed.path
                path == IF parsed.netloc # << >> THEN parsed.path ELSE << >>
                query == parsed.query
                fragment == << >>
                safe_path == Quote(Unquote(path), {47, 58, 37})
            IN IF parsed.raised THEN [raised |-> TRUE, value |-> << >>]
               ELSE [raised |-> FALSE,
                     value |-> UrlUnsplit(scheme, netloc, safe_path, query, fragment)]
    IN IF url0 = << >> THEN [raised |-> FALSE, value |-> << >>]
       ELSE Rebuild(UrlSplit(StrStrip(url0)))

\* extract_domain(url): raised = TRUE where urlsplit raises ValueError.
extract_domain(url) ==
    LET Host(parsed) ==
            LET netloc == Lower(parsed.netloc)
            IN IF parsed.raised THEN [raised |-> TRUE, value |-> << >>]
               ELSE [raised |-> FALSE,
                     value |-> IF HasChar(netloc, 58) THEN Split1(netloc, 58)[1]
                               ELSE netloc]
    IN Host(UrlSplit(url))

\* the character class [U+0400-U+04FF, U+03B1-U+03C9] of has_suspicious_unicode
SuspiciousChar(c) == c \in 1024..1279 \/ c \in 945..969

\* has_suspicious_unicode(domain)
has_suspicious_unicode(domain) ==
    LET Search(clean) == \E i \in 1..Len(clean) : SuspiciousChar(clean[i])
    IN Search(to_unicode_domain(domain))

\* One character of ascii_skeleton's loop: the text it appends.
SkeletonChar(char) ==
    LET Map(ascii, unicode) ==
            IF char \in DOMAIN ascii THEN ascii[char]
            ELSE IF char < 128 THEN <<LowerChar(char)>>
            ELSE IF char \in DOMAIN unicode /\ unicode[char] # << >>
            THEN Lower(unicode[char])
            ELSE Lower(SelectSeq(NFKD(<<char>>), LAMBDA c : c < 128))
    IN Map(ASCII_CONFUSABLES, UNICODE_CONFUSABLES)

\* ascii_skeleton(value)
ascii_skeleton(value) ==
    IF value = << >> THEN << >>
    ELSE LET Skeleton(normalized) ==
                 Concat([i \in 1..Len(normalized) |-> SkeletonChar(normalized[i])])
         IN Skeleton(NFKC(to_unicode_domain(value)))

(***************************************************************************)
(* difflib.SequenceMatcher(None, a, b).ratio().  No element is junk, and   *)
(* b is always shorter than the 200 elements at which autojunk starts.     *)
(***************************************************************************)

\* find_longest_match(alo, ahi, blo, bhi) over the 1-based windows
\* a[alo..ahi] and b[blo..bhi]: the longest common block, of those the one
\* that starts earliest in a, of those the one that starts earliest in b.
\* run[i, j] is the code's j2len: the length of the common block of the
\* windows that ends at a[i] and b[j].
FindLongestMatch(a, b, alo, ahi, blo, bhi) ==
    LET run[i \in alo..ahi, j \in blo..bhi] ==
            IF a[i] # b[j] THEN 0
            ELSE IF i = alo \/ j = blo THEN 1
            ELSE run[i - 1, j - 1] + 1
        ends == (alo..ahi) \X (blo..bhi)
        best == IF ends = {} THEN 0
                ELSE MaxOf({run[e[1], e[2]] : e \in ends})
        firsts == {e \in ends : run[e[1], e[2]] = best}
        e1 == CHOOSE e \in firsts :
                  \A f \in firsts : e[1] < f[1] \/ (e[1] = f[1] /\ e[2] <= f[2])
    IN IF best = 0 THEN [i |-> alo, j |-> blo, size |-> 0]
       ELSE [i |-> e1[1] - best + 1, j |-> e1[2] - best + 1, size |-> best]

RECURSIVE MatchedLength(_, _, _, _, _, _)
\* The sum of the sizes of get_matching_blocks() within the windows: the
\* longest block, then the blocks to its left and to its right.
MatchedLength(a, b, alo, ahi, blo, bhi) ==
    LET Around(x) ==
            IF x.size = 0 THEN 0
            ELSE x.size
                 + (IF alo < x.i /\ blo < x.j
                    THEN MatchedLength(a, b, alo, x.i - 1, blo, x.j - 1) ELSE 0)
                 + (IF x.i + x.size <= ahi /\ x.j + x.size <= bhi
                    THEN MatchedLength(a, b, x.i + x.size, ahi, x.j + x.size, bhi)
                    ELSE 0)
    IN Around(FindLongestMatch(a, b, alo, ahi, blo, bhi))

\* ratio() as the fraction <<2 * matches, len(a) + len(b)>>; 1.0 for two
\* empty strings.
Ratio(a, b) ==
    IF Len(a) + Len(b) = 0 THEN <<1, 1>>
    ELSE <<2 * MatchedLength(a, b, 1, Len(a), 1, Len(b)), Len(a) + Len(b)>>

\* The whole-domain test with the threshold of the fragment test:
\* 0.85 <= ratio < 1
RatioLooksLikeFrom85(r) == 100 * r[1] >= 85 * r[2] /\ r[1] < r[2]

\* 0.82 < ratio < 1.  The float quotient 2.0*matches/length is the
\* correctly rounded fraction, so at these lengths it compares with the
\* literals as the fraction does with 82/100.
RatioLooksLike(r) == 100 * r[1] > 82 * r[2] /\ r[1] < r[2]

\* ratio >= 0.85
RatioFragment(r) == 100 * r[1] >= 85 * r[2]

(***************************************************************************)
(* safeqr/security.py                                                      *)
(***************************************************************************)

\* _SUSPICIOUS_WORDS
SUSPICIOUS_WORDS ==
    << S(<<"l","o","g","i","n">>),
       S(<<"v","e","r","i","f","y">>),
       S(<<"s","e","c","u","r","e">>),
       S(<<"f","r","e","e">>),
       S(<<"g","i","f","t">>),
       S(<<"c","o","n","f","i","r","m">>),
       S(<<"b","a","n","k">>),
       S(<<"u","p","d","a","t","e">>),
       S(<<"a","c","c","o","u","n","t">>),
       S(<<"a","u","t","h">>) >>

\* _KNOWN_BRANDS
KNOWN_BRANDS ==
    << S(<<"m","i","c","r","o","s","o","f","t",".","c","o","m">>),
       S(<<"g","o","o","g","l","e",".","c","o","m">>),
       S(<<"a","p","p","l","e",".","c","o","m">>),
       S(<<"f","a","c","e","b","o","o","k",".","c","o","m">>),
       S(<<"p","a","y","p","a","l",".","c","o","m">>),
       S(<<"a","m","a","z","o","n",".","c","o","m">>),
       S(<<"i","n","s","t","a","g","r","a","m",".","c","o","m">>),
       S(<<"n","e","t","f","l","i","x",".","c","o","m">>),
       S(<<"s","t","e","a","m","c","o","m","m","u","n","i","t","y",".","c","o","m">>),
       S(<<"k","a","s","p","i","b","a","n","k",".","k","z">>),
       S(<<"b","a","n","k",".","k","z">>) >>

\* _SUSPICIOUS_PARAMS
SUSPICIOUS_PARAMS ==
    { S(<<"r","e","d","i","r","e","c","t">>),
       S(<<"r","e","d","i","r">>),
       S(<<"r","e","t","u","r","n">>),
       S(<<"n","e","x","t">>),
       S(<<"c","o","n","t","i","n","u","e">>),
       S(<<"u","r","l">>),
       S(<<"t","a","r","g","e","t">>),
       S(<<"d","e","s","t">>),
       S(<<"d","e","s","t","i","n","a","t","i","o","n">>),
       S(<<"g","o","t","o">>) }

\* A warning: the message of the check `kind`, with the one or two strings
\* its f-string interpolates (empty where the message has none).
Warning(kind, a, b) == [kind |-> kind, a |-> a, b |-> b]

\* _assess_risk with `<` for `<=`: two warnings are already high
assess_risk_below_two(warnings) ==
    IF warnings = << >> THEN "low"
    ELSE IF Len(warnings) < 2 THEN "medium"
    ELSE "high"

\* _assess_risk(warnings)
assess_risk(warnings) ==
    IF warnings = << >> THEN "low"
    ELSE IF Len(warnings) <= 2 THEN "medium"
    ELSE "high"

\* _check_redirects(url_lower, warnings): the warnings it appends
check_redirects(url_lower) ==
    IF Contains(url_lower, S(<<"?","r","e","d","i","r","e","c","t","=">>))
       \/ Contains(url_lower, S(<<"/","/","@">>))
    THEN <<Warning("redirect", << >>, << >>)>>
    ELSE << >>

\* _check_keywords with a `break` after the first word found
check_keywords_first_only(url_lower) ==
    LET found == {n \in 1..Len(SUSPICIOUS_WORDS) : Contains(url_lower, SUSPICIOUS_WORDS[n])}
    IN IF found = {} THEN << >>
       ELSE <<Warning("keyword", SUSPICIOUS_WORDS[MinOf(found)], << >>)>>

\* _check_keywords(url_lower, warnings): the warnings it appends
check_keywords(url_lower) ==
    Concat([n \in 1..Len(SUSPICIOUS_WORDS) |->
               IF Contains(url_lower, SUSPICIOUS_WORDS[n])
               THEN <<Warning("keyword", SUSPICIOUS_WORDS[n], << >>)>>
               ELSE << >>])

\* "".join(ch for ch in s if ch.isalnum())
Compact(s) == SelectSeq(s, IsAlnum)

\* _contains_brand_fragment without the exchange of the two strings when
\* the domain is the shorter one: range() is then empty
contains_brand_fragment_no_swap(domain_skeleton, brand_label) ==
    LET Match(domain_compact, brand_compact) ==
            LET chunk(idx) == SubSeq(domain_compact, idx, idx + Len(brand_compact) - 1)
            IN IF domain_compact = << >> \/ brand_compact = << >> THEN FALSE
               ELSE IF Contains(domain_compact, brand_compact) THEN TRUE
               ELSE \E idx \in 1..(Len(domain_compact) - Len(brand_compact) + 1) :
                       RatioFragment(Ratio(chunk(idx), brand_compact))
    IN Match(Compact(domain_skeleton), Compact(ascii_skeleton(brand_label)))

\* _contains_brand_fragment(domain_skeleton, brand_label)
contains_brand_fragment(domain_skeleton, brand_label) ==
    LET Match(domain_compact0, brand_compact0) ==
            LET swap == Len(domain_compact0) < Len(brand_compact0)
                domain_compact == IF swap THEN brand_compact0 ELSE domain_compact0
                brand_compact == IF swap THEN domain_compact0 ELSE brand_compact0
                chunk(idx) == SubSeq(domain_compact, idx, idx + Len(brand_compact) - 1)
            IN IF domain_compact0 = << >> \/ brand_compact0 = << >> THEN FALSE
               ELSE IF Contains(domain_compact0, brand_compact0) THEN TRUE
               ELSE \E idx \in 1..(Len(domain_compact) - Len(brand_compact) + 1) :
                       RatioFragment(Ratio(chunk(idx), brand_compact))
    IN Match(Compact(domain_skeleton), Compact(ascii_skeleton(brand_label)))

\* parse_qsl(query, keep_blank_values=True): the <<key, value>> pairs
parse_qsl(qs) ==
    LET plus(s) == [i \in 1..Len(s) |-> IF s[i] = 43 THEN 32 ELSE s[i]]
        name_value(nv) == <<Unquote(plus(nv[1])), Unquote(plus(nv[2]))>>
        Pairs(fields) == [n \in 1..Len(fields) |-> name_value(Split1(fields[n], 61))]
    IN Pairs(SelectSeq(IF qs = << >> THEN << >> ELSE Split(qs, 38),
                       LAMBDA nv : nv # << >>))

\* _check_query_params with `elif` for its second `if`: the value is
\* looked at only when the key is not a redirect parameter
check_query_params_elif(parsed) ==
    LET Each(params) ==
            Concat([n \in 1..Len(params) |->
               LET key == params[n][1]
                   value == params[n][2]
               IN IF Lower(key) \in SUSPICIOUS_PARAMS
                  THEN <<Warning("param_redirect", key, << >>)>>
                  ELSE IF value # << >>
                          /\ Contains(Lower(value), S(<<"h","t","t","p",":","/","/">>))
                  THEN <<Warning("param_http", key, value)>> ELSE << >>])
    IN IF parsed.query = << >> THEN << >>
       ELSE Each(parse_qsl(parsed.query))

\* _check_query_params(parsed, warnings): the warnings it appends
check_query_params(parsed) ==
    LET Each(params) ==
            Concat([n \in 1..Len(params) |->
               LET key == params[n][1]
                   value == params[n][2]
               IN (IF Lower(key) \in SUSPICIOUS_PARAMS
                   THEN <<Warning("param_redirect", key, << >>)>> ELSE << >>)
                  \o (IF value # << >>
                         /\ Contains(Lower(value), S(<<"h","t","t","p",":","/","/">>))
                      THEN <<Warning("param_http", key, value)>> ELSE << >>)])
    IN IF parsed.query = << >> THEN << >>
       ELSE Each(parse_qsl(parsed.query))

RECURSIVE BrandLoopNoSkip(_, _, _)
\* The loop without its `continue` for a domain that ends with the brand
BrandLoopNoSkip(unicode_domain, domain_skeleton, n) ==
    IF n > Len(KNOWN_BRANDS) THEN << >>
    ELSE LET Brand(brand) ==
                 LET brand_label == Split1(brand, 46)[1]
                 IN IF RatioLooksLike(Ratio(unicode_domain, brand))
                    THEN <<Warning("brand_similar", unicode_domain, brand)>>
                    ELSE IF contains_brand_fragment(domain_skeleton, brand_label)
                    THEN <<Warning("brand_fragment", unicode_domain, brand_label)>>
                    ELSE BrandLoopNoSkip(unicode_domain, domain_skeleton, n + 1)
         IN Brand(KNOWN_BRANDS[n])

RECURSIVE BrandLoopNoBreak(_, _, _)
\* The loop without its `break`s: it goes on after a warning
BrandLoopNoBreak(unicode_domain, domain_skeleton, n) ==
    IF n > Len(KNOWN_BRANDS) THEN << >>
    ELSE LET Brand(brand) ==
                 LET brand_label == Split1(brand, 46)[1]
                 IN IF EndsWith(unicode_domain, brand) THEN << >>
                    ELSE IF RatioLooksLike(Ratio(unicode_domain, brand))
                    THEN <<Warning("brand_similar", unicode_domain, brand)>>
                    ELSE IF contains_brand_fragment(domain_skeleton, brand_label)
                    THEN <<Warning("brand_fragment", unicode_domain, brand_label)>>
                    ELSE << >>
         IN Brand(KNOWN_BRANDS[n]) \o BrandLoopNoBreak(unicode_domain, domain_skeleton, n + 1)

RECURSIVE BrandLoop(_, _, _)
\* The for loop of _check_domain_spoof from brand n on: the warning it
\* appends before its break, none when it runs to the end.
BrandLoop(unicode_domain, domain_skeleton, n) ==
    IF n > Len(KNOWN_BRANDS) THEN << >>
    ELSE LET Brand(brand) ==
                 LET brand_label == Split1(brand, 46)[1]
                 IN IF EndsWith(unicode_domain, brand)
                    THEN BrandLoop(unicode_domain, domain_skeleton, n + 1)
                    ELSE IF RatioLooksLike(Ratio(unicode_domain, brand))
                    THEN <<Warning("brand_similar", unicode_domain, brand)>>
                    ELSE IF contains_brand_fragment(domain_skeleton, brand_label)
                    THEN <<Warning("brand_fragment", unicode_domain, brand_label)>>
                    ELSE BrandLoop(unicode_domain, domain_skeleton, n + 1)
         IN Brand(KNOWN_BRANDS[n])

\* _check_domain_spoof with its two parts in the other order: the punycode
\* test before the loop over the brands
check_domain_spoof_punycode_first(domain) ==
    LET Brands(unicode_domain) ==
            BrandLoop(unicode_domain, ascii_skeleton(unicode_domain), 1)
    IN (IF contains_punycode(domain) \/ has_suspicious_unicode(domain)
        THEN <<Warning("punycode", << >>, << >>)>> ELSE << >>)
       \o Brands(to_unicode_domain(domain))

\* _check_domain_spoof(domain, warnings): the warnings it appends
check_domain_spoof(domain) ==
    LET Brands(unicode_domain) ==
            BrandLoop(unicode_domain, ascii_skeleton(unicode_domain), 1)
    IN Brands(to_unicode_domain(domain))
       \o (IF contains_punycode(domain) \/ has_suspicious_unicode(domain)
           THEN <<Warning("punycode", << >>, << >>)>> ELSE << >>)

\* The length above which check_url_safety warns of a long link
MAX_URL_LENGTH == 150

\* The checks of check_url_safety on the scheme, the host and the length
check_scheme(parsed) ==
    IF parsed.scheme # S(<<"h","t","t","p","s">>)
    THEN <<Warning("no_https", << >>, << >>)>> ELSE << >>

check_ip_host(domain) ==
    IF is_ip_address(domain) THEN <<Warning("ip_host", << >>, << >>)>> ELSE << >>

check_length(normalized) ==
    IF Len(normalized) > MAX_URL_LENGTH
    THEN <<Warning("too_long", << >>, << >>)>> ELSE << >>

\* SecurityReport(safe, warnings, risk_level).as_dict()
SecurityReport(warnings) ==
    [raised |-> FALSE, safe |-> warnings = << >>, warnings |-> warnings,
     risk_level |-> assess_risk(warnings)]

\* What a call returns when a ValueError leaves check_url_safety
Raised == [raised |-> TRUE, safe |-> FALSE, warnings |-> << >>, risk_level |-> "none"]

\* check_url_safety(url), run to its end
check_url_safety(url) ==
    LET Checks(normalized, parsed, url_lower, domain) ==
            IF parsed.raised \/ domain.raised THEN Raised
            ELSE SecurityReport(check_scheme(parsed)
                                \o check_ip_host(domain.value)
                                \o check_length(normalized)
                                \o check_keywords(url_lower)
                                \o check_redirects(url_lower)
                                \o check_query_params(parsed)
                                \o check_domain_spoof(domain.value))
        Normalized(n) ==
            IF n.raised THEN Raised
            ELSE Checks(n.value, UrlSplit(n.value), Lower(n.value),
                        extract_domain(n.value))
    IN Normalized(normalize_url(url))

(***************************************************************************)
(* The inputs of the calls.  A URL is assembled from the parts urlsplit    *)
(* tells apart; the families below vary one group of parts at a time.      *)
(***************************************************************************)

\* The most whitespace characters of a blank input
MaxPad == 2

\* The most parameters of a query string
MaxParams == 2

\* The longest run of filler characters in a path: with the 20 characters
\* of the prefix it reaches one character past MAX_URL_LENGTH
MaxFill == 131

\* scheme prefixes; none lets normalize_url supply https
Schemes ==
    { << >>,
      S(<<"h","t","t","p","s",":","/","/">>),
      S(<<"h","t","t","p",":","/","/">>),
      S(<<"H","T","T","P","S",":","/","/">>) }

\* userinfo prefixes of the authority
UserInfos ==
    { << >>,
      S(<<"u","s","e","r","@">>),
      S(<<"u","s","e","r",":","p","w","@">>) }

\* hosts: names, IPv4 and IPv6 literals, an unbalanced bracket, no host
Hosts ==
    { S(<<"e","x","a","m","p","l","e",".","c","o","m">>),
      S(<<"E","x","a","m","p","l","e",".","C","O","M">>),
      S(<<"1","9","2",".","1","6","8",".","0",".","1">>),
      S(<<"2","5","6",".","1",".","1",".","1">>),
      S(<<"[",":",":","1","]">>),
      S(<<"[",":",":","1">>),
      S(<<":",":","1">>),
      << >> }

\* port suffixes of the authority
Ports ==
    { << >>,
      S(<<":","8","0">>) }

\* what follows the authority in the first family
Tails ==
    { << >>,
      S(<<"/","x">>) }

\* paths with spaces, percent-escapes and keywords
Paths ==
    { S(<<"/","a"," ","b">>),
      S(<<"/","%","2","5","4","1">>),
      S(<<"/","%","2","5">>),
      S(<<"/","%","4","1">>),
      S(<<"/","a","%","2","0","b">>),
      S(<<"/","l","o","g","i","n">>),
      S(<<"/","s","e","c","u","r","e","/","u","p","d","a","t","e">>),
      S(<<"/","%","z","z">>) }

\* query strings of the path family
Queries ==
    { << >>,
      S(<<"?","q","=","a"," ","b">>),
      S(<<"?","q","=","%","2","5","4","1">>) }

\* fragments
Fragments ==
    { << >>,
      S(<<"#","t","o","p">>) }

\* name=value fields of a query string; the empty field is the one
\* parse_qsl skips
Params ==
    { S(<<"r","e","d","i","r","e","c","t","=","h","t","t","p",":","/","/","e","v","i","l",".","c","o","m">>),
      S(<<"N","e","x","t","=","/","h","o","m","e">>),
      S(<<"q","=","H","T","T","P",":","/","/","a",".","b">>),
      S(<<"i","d","=","1">>),
      << >> }

\* domains for _check_domain_spoof: brands, their subdomains, look-alikes,
\* punycode and non-ASCII labels
SpoofDomains ==
    { S(<<"g","o","o","g","l","e",".","c","o","m">>),
      S(<<"a","c","c","o","u","n","t","s",".","g","o","o","g","l","e",".","c","o","m">>),
      S(<<"p","a","y","p","a","1",".","c","o","m">>),
      S(<<"p","a","y","p","a","l",".","c","o","m",".","e","v","i","l",".","n","e","t">>),
      S(<<"p","a","y","p","a","l","-","s","e","c","u","r","e",".","g","o","o","g","l","e",".","c","o","m">>),
      S(<<"m","i","c","r","o","s","0","f","t",".","c","o","m">>),
      S(<<"m">>) \o <<237>> \o S(<<"c","r","o","s","o","f","t",".","c","o","m">>),
      <<1072>> \o S(<<"p","p","l","e",".","c","o","m">>),
      S(<<"x","n","-","-","e","1","a","f","m","k","f","d",".","x","n","-","-","p","1","a","i">>),
      <<1087, 1088, 1080, 1084, 1077, 1088>> \o S(<<".">>) \o <<1088, 1092>>,
      S(<<"k","a","s","p","i","b","a","n","k",".","k","z">>),
      S(<<"m","y","b","a","n","k",".","k","z">>),
      S(<<"k","a","s","p","i","-","b","a","n","k",".","k","z">>),
      S(<<"b","a","n","k",".","k","z",".","e","v","i","l",".","c","o","m">>),
      S(<<"n","e","t","f","l","1","x",".","c","o","m">>),
      S(<<"s","t","e","a","m","c","o","m","m","u","n","l","t","y",".","c","o","m">>),
      S(<<"f","a","c","e","b","0","0","k",".","c","o","m">>),
      S(<<"i","n","s","t","a","g","r","a","r","n",".","c","o","m">>),
      S(<<"a","m","a","z","o","n",".","c","o","m",".">>),
      S(<<"x","n","-","-">>),
      S(<<"x","n","-","-","a",".","c","o","m">>),
      <<940>> \o S(<<".","c","o","m">>),
      S(<<"x","n","-","-","h","x","a",".","c","o","m">>),
      S(<<"a","p","p","l","e",".","c","o","m",".","r","u">>),
      S(<<"g","o","o","g","1","e",".","c","o","m">>),
      <<945>> \o S(<<"p","p","l","e",".","c","o","m">>),
      S(<<"a","p","p","l","e","-","g","o","o","g","l","e",".","n","e","t">>),
      S(<<"k","a","s","p","i","b","a","n","k",".","k","z",".","e","v","i","l",".","c","o","m">>),
      S(<<"k","a","s","p","i","b","a","n","k",".","k","g">>),
      S(<<"b","a","n","k",".","k","z",".","r","u">>),
      S(<<"p","a","y","p","p","l",".","c","o","m">>),
      S(<<"g","o","g","l","e",".","c","o","m">>),
      S(<<"s","o",".","f","t">>) }

\* space, tab, line feed, no-break space: characters str.strip() removes
WhitespaceChars == {32, 9, 10, 160}

\* inputs with no host, unbalanced brackets or surrounding whitespace
Malformed ==
    { S(<<"[">>),
      S(<<"]">>),
      S(<<"h","t","t","p",":","/","/","[">>),
      S(<<"h","t","t","p","s",":","/","/","a","[","b">>),
      S(<<"h","t","t","p","s",":","/","/","]">>),
      S(<<":","/","/">>),
      S(<<"h","t","t","p",":","/","/">>),
      S(<<"h","t","t","p","s",":","/","/">>),
      S(<<"?">>),
      S(<<"#">>),
      S(<<"/","/">>),
      S(<<"h","t","t","p",":","/","/","/","x">>),
      S(<<"h","t","t","p","s",":","/","/","x","n","-","-",".","c","o","m">>),
      S(<<"a",".","c","o","m",":","8","0","/","x">>),
      S(<<" ","h","t","t","p","s",":","/","/","a",".","c","o","m","/"," ">>),
      <<9>> \o S(<<"h","t","t","p","s",":","/","/","a",".","c","o","m","/","x">>) \o <<10>> }

\* domains for has_suspicious_unicode
SuspectDomains ==
    { S(<<"e","x","a","m","p","l","e",".","c","o","m">>),
      <<1087, 1088, 1080, 1084, 1077, 1088>> \o S(<<".">>) \o <<1088, 1092>>,
      S(<<"x","n","-","-","e","1","a","f","m","k","f","d",".","x","n","-","-","p","1","a","i">>),
      <<940>> \o S(<<".","c","o","m">>),
      S(<<"x","n","-","-","h","x","a",".","c","o","m">>),
      <<913>> \o S(<<"p","p","l","e",".","c","o","m">>),
      <<1072>> \o S(<<"p","p","l","e",".","c","o","m">>),
      <<945>> \o S(<<"p","p","l","e",".","c","o","m">>),
      <<937>> \o S(<<".","c","o","m">>),
      <<1040>> \o S(<<"p","p","l","e",".","c","o","m">>),
      S(<<"x","n","-","-">>),
      S(<<"x","n","-","-","a",".","c","o","m">>),
      S(<<"m">>) \o <<237>> \o S(<<"c","r","o","s","o","f","t",".","c","o","m">>),
      S(<<"X","N","-","-","E","1","A","F","M","K","F","D",".","c","o","m">>),
      << >>,
      <<962>> \o S(<<".","g","r">>) }

\* labels for ascii_skeleton
SkeletonLabels ==
    { S(<<"a","p","p","l","e",".","c","o","m">>),
      S(<<"p","a","y","p","a","l">>),
      S(<<"i">>) \o <<776>>,
      S(<<"a">>) \o <<769>> \o S(<<"p","p","l","e">>),
      S(<<"g">>) \o <<769>>,
      S(<<"e">>) \o <<776>>,
      S(<<"x","n","-","-","e","l","a","f","m","k","f","d">>),
      S(<<"x","n","-","-","p","l","a","i">>),
      S(<<"b","a","n","k",".","k","z">>),
      S(<<"s","0","f","t">>),
      S(<<"g","o","o","g","l","e">>) }

\* the length of the longest label
MaxLabel == MaxOf({Len(s) : s \in SkeletonLabels})

\* domain skeletons for _contains_brand_fragment: nothing alphanumeric, a
\* brand inside, a brand with one or two letters changed, a piece of a brand
FragmentSkeletons ==
    { << >>,
      S(<<"-",".","-">>),
      S(<<"a","c","c","o","u","n","t","s","g","o","o","g","l","e",".","c","o","m">>),
      S(<<"s","o","f","t">>),
      S(<<"s","o",".","f","t">>),
      S(<<"m","l","c","r","o","s","o","f","t",".","c","o","m">>),
      S(<<"m","l","c","r","o","s","o","f","d",".","c","o","m">>),
      S(<<"k","a","s","p","i","-","b","a","n","k",".","k","z">>),
      S(<<"a","m","a","z","o","m",".","n","e","t">>),
      S(<<"n","e","t","f","l","l","x">>),
      S(<<"b","a","n","k">>),
      S(<<"g","o","g","l","e">>) }

\* brand labels for _contains_brand_fragment: brand.split(".", 1)[0] of
\* every brand, and two labels with nothing alphanumeric
FragmentLabels ==
    {Split1(KNOWN_BRANDS[n], 46)[1] : n \in 1..Len(KNOWN_BRANDS)} \cup {<< >>, S(<<"-">>)}

\* warnings to add to a returned list
ExtraWarnings ==
    { Warning("too_long", << >>, << >>),
      Warning("keyword", S(<<"f","r","e","e">>), << >>) }

\* "&".join(fields)
JoinAmp(fields) ==
    Concat([i \in 1..Len(fields) |->
               IF i = 1 THEN fields[i] ELSE <<38>> \o fields[i]])

\* scheme, userinfo, host, port and tail in every combination
StructureUrls ==
    { s \o u \o h \o p \o t :
        s \in Schemes, u \in UserInfos, h \in Hosts, p \in Ports, t \in Tails }

\* one host with every path, query and fragment, with and without a scheme
PathUrls ==
    { s \o S(<<"a",".","c","o","m">>) \o p \o q \o f :
        s \in {<< >>, S(<<"h","t","t","p","s",":","/","/">>)},
        p \in Paths, q \in Queries, f \in Fragments }

\* the query strings of one to MaxParams fields
QueryStrings ==
    { JoinAmp(t) : t \in UNION { [1..k -> Params] : k \in 1..MaxParams } }

QueryUrls ==
    { S(<<"h","t","t","p","s",":","/","/","e","x","a","m","p","l","e",".","c","o","m",
          "/","g","o","?">>) \o q : q \in QueryStrings }

SpoofUrls ==
    { S(<<"h","t","t","p","s",":","/","/">>) \o d \o S(<<"/">>) : d \in SpoofDomains }

\* URLs on which several checks warn at once: scheme, host, keywords in the
\* path, redirect pattern and parameters in the query
MixedUrls ==
    { s \o h \o p \o q :
        s \in {S(<<"h","t","t","p",":","/","/">>), S(<<"h","t","t","p","s",":","/","/">>)},
        h \in {S(<<"1","9","2",".","1","6","8",".","0",".","1">>),
               <<1072>> \o S(<<"p","p","l","e",".","c","o","m">>),
               S(<<"p","a","y","p","a","1",".","c","o","m">>)},
        p \in {S(<<"/","x">>),
               S(<<"/","v","e","r","i","f","y","/","l","o","g","i","n">>)},
        q \in {<< >>,
               S(<<"?","r","e","d","i","r","e","c","t","=","h","t","t","p",":","/","/",
                   "e","v","i","l",".","c","o","m","&","u","r","l","=","b">>)} }

\* URLs with keywords in the host, the path and the query, twice, inside
\* longer words, in capitals and percent-encoded
KeywordUrls ==
    { S(<<"h","t","t","p","s",":","/","/","e","x","a","m","p","l","e",".","c","o","m","/">>) \o p :
        p \in {S(<<"l","o","g","i","n","/","l","o","g","i","n">>),
               S(<<"?","a","u","t","h","o","r","i","t","y","=","f","r","e","e","b","i","e">>),
               S(<<"L","O","G","I","N">>),
               S(<<"l","o","g","%","6","9","n">>),
               S(<<"l","o","g","-","i","n">>)} }
    \cup { S(<<"h","t","t","p","s",":","/","/","l","o","g","i","n",".","e","x","a","m","p","l","e",
              ".","c","o","m","/","?","q","=","l","o","g","i","n">>),
           S(<<"h","t","t","p","s",":","/","/","b","a","n","k","a","c","c","o","u","n","t",".",
              "e","x","a","m","p","l","e",".","c","o","m","/","u","p","d","a","t","e">>) }

\* URLs whose length is just below, at and just above MAX_URL_LENGTH
LongUrls ==
    { S(<<"h","t","t","p","s",":","/","/","e","x","a","m","p","l","e",".","c","o","m",
          "/">>) \o [i \in 1..n |-> 97] : n \in (MaxFill - 2)..MaxFill }

\* the empty input and the inputs made of whitespace only
WhitespaceInputs ==
    UNION { [1..k -> WhitespaceChars] : k \in 0..MaxPad }

\* every input of check_url_safety and normalize_url
Urls ==
    StructureUrls \cup PathUrls \cup QueryUrls \cup SpoofUrls \cup MixedUrls \cup KeywordUrls
    \cup LongUrls
    \cup WhitespaceInputs \cup Malformed

(***************************************************************************)
(* The state machine.  A client calls check_url_safety, whose body runs    *)
(* one check at a time, or it calls one of the validators.  The functions  *)
(* keep nothing between calls, so a behaviour is one call, on any input,   *)
(* and at most one more call made from what the first one returned.        *)
(***************************************************************************)

VARIABLES
    pc,          \* where the check_url_safety call stands
    url,         \* its argument
    normalized,  \* its locals, as the code names them
    parsed,
    url_lower,
    domain,
    warnings,
    report,      \* what the call returned
    call,        \* the last call of a validator: function, argument, result
    before,      \* the call whose argument or result `call` was made from
    calls,       \* the frames of the concurrent check_url_safety calls
    tables,      \* the module-level tables of security.py
    camera,      \* the frame of a scan_from_camera call and its capture device
    web          \* the web layer: _recent_checks, the log file, the last response

vars ==
    <<pc, url, normalized, parsed, url_lower, domain, warnings, report, call, before,
      calls, tables, camera, web>>

\* What a single call of check_url_safety or of a validator leaves alone
elsewhere == <<calls, tables, camera, web>>

\* urlsplit("")
NoParse ==
    [raised |-> FALSE, scheme |-> << >>, netloc |-> << >>, path |-> << >>,
     query |-> << >>, fragment |-> << >>]

\* No check_url_safety call has returned yet
NoReport == [raised |-> FALSE, safe |-> FALSE, warnings |-> << >>, risk_level |-> "none"]

\* No validator has been called
NoCall == [fn |-> "none", arg |-> << >>, ret |-> [raised |-> FALSE, value |-> << >>]]

\* Nothing has been called yet
Idle == pc = "idle" /\ call.fn = "none"

\* The most check_url_safety calls that run at the same time
MaxCalls == 2

\* The frame of a check_url_safety call that has not started
NoFrame ==
    [pc |-> "idle", url |-> << >>, normalized |-> << >>, parsed |-> NoParse,
     url_lower |-> << >>, domain |-> << >>, warnings |-> << >>, report |-> NoReport]

\* _SUSPICIOUS_WORDS, _KNOWN_BRANDS and _SUSPICIOUS_PARAMS as the module holds them
Tables ==
    [words |-> SUSPICIOUS_WORDS, brands |-> KNOWN_BRANDS, params |-> SUSPICIOUS_PARAMS]

\* No scan_from_camera call has started: its locals, what it has returned
\* or raised, how often capture.release() has run and the frames read
NoCamera ==
    [pc |-> "idle", timeout |-> 0, max_frames |-> 0, frame_count |-> 0, payload |-> << >>,
     result |-> [kind |-> "none", value |-> << >>], released |-> 0, frames |-> << >>]

\* The web layer after start-up: no check made, no request answered
NoWeb ==
    [recent_checks |-> << >>, decoded |-> << >>,
     response |-> [kind |-> "none", scan_result |-> << >>, security_report |-> NoReport]]

Init ==
    /\ pc = "idle"
    /\ url = << >>
    /\ normalized = << >>
    /\ parsed = NoParse
    /\ url_lower = << >>
    /\ domain = << >>
    /\ warnings = << >>
    /\ report = NoReport
    /\ call = NoCall
    /\ before = NoCall
    /\ calls = [t \in 1..MaxCalls |-> NoFrame]
    /\ tables = Tables
    /\ camera = NoCamera
    /\ web = NoWeb

\* check_url_safety(u) up to the scheme check: normalize_url, urlsplit and
\* lower(), any of the first two raising ValueError out of the call.
Begin(u) ==
    /\ Idle
    /\ url' = u
    /\ LET Parsed(n, p) ==
               IF n.raised \/ p.raised
               THEN /\ pc' = "raised"
                    /\ normalized' = << >>
                    /\ parsed' = NoParse
                    /\ url_lower' = << >>
                    /\ warnings' = << >>
                    /\ report' = Raised
               ELSE /\ pc' = "host"
                    /\ normalized' = n.value
                    /\ parsed' = p
                    /\ url_lower' = Lower(n.value)
                    /\ warnings' = check_scheme(p)
                    /\ report' = NoReport
           Normalized(n) == Parsed(n, IF n.raised THEN NoParse ELSE UrlSplit(n.value))
       IN Normalized(normalize_url(u))
    /\ domain' = << >>
    /\ call' = NoCall
    /\ before' = NoCall
    /\ UNCHANGED elsewhere

\* domain = extract_domain(normalized) and the IP-address check
CheckHost ==
    /\ pc = "host"
    /\ LET Host(d) ==
               IF d.raised
               THEN /\ pc' = "raised"
                    /\ report' = Raised
                    /\ UNCHANGED <<domain, warnings>>
               ELSE /\ pc' = "length"
                    /\ domain' = d.value
                    /\ warnings' = warnings \o check_ip_host(d.value)
                    /\ UNCHANGED report
       IN Host(extract_domain(normalized))
    /\ UNCHANGED <<url, normalized, parsed, url_lower, call, before>>
    /\ UNCHANGED elsewhere

\* the length check
CheckLength ==
    /\ pc = "length"
    /\ warnings' = warnings \o check_length(normalized)
    /\ pc' = "keywords"
    /\ UNCHANGED <<url, normalized, parsed, url_lower, domain, report, call, before>>
    /\ UNCHANGED elsewhere

\* _check_keywords(url_lower, warnings)
CheckKeywords ==
    /\ pc = "keywords"
    /\ warnings' = warnings \o check_keywords(url_lower)
    /\ pc' = "redirects"
    /\ UNCHANGED <<url, normalized, parsed, url_lower, domain, report, call, before>>
    /\ UNCHANGED elsewhere

\* _check_redirects(url_lower, warnings)
CheckRedirects ==
    /\ pc = "redirects"
    /\ warnings' = warnings \o check_redirects(url_lower)
    /\ pc' = "query"
    /\ UNCHANGED <<url, normalized, parsed, url_lower, domain, report, call, before>>
    /\ UNCHANGED elsewhere

\* _check_query_params(parsed, warnings)
CheckQueryParams ==
    /\ pc = "query"
    /\ warnings' = warnings \o check_query_params(parsed)
    /\ pc' = "spoof"
    /\ UNCHANGED <<url, normalized, parsed, url_lower, domain, report, call, before>>
    /\ UNCHANGED elsewhere

\* _check_domain_spoof(domain, warnings)
CheckDomainSpoof ==
    /\ pc = "spoof"
    /\ warnings' = warnings \o check_domain_spoof(domain)
    /\ pc' = "assess"
    /\ UNCHANGED <<url, normalized, parsed, url_lower, domain, report, call, before>>
    /\ UNCHANGED elsewhere

\* safe, risk and the returned SecurityReport(...).as_dict()
Return ==
    /\ pc = "assess"
    /\ report' = SecurityReport(warnings)
    /\ pc' = "done"
    /\ UNCHANGED <<url, normalized, parsed, url_lower, domain, warnings, call, before>>
    /\ UNCHANGED elsewhere

\* What a call of a validator returns: its value, or the ValueError it lets out
Returned(value) == [raised |-> FALSE, value |-> value]

\* _assess_risk(report.warnings + [w]): the risk of the returned list with
\* one more warning
AssessRisk(w) ==
    /\ pc = "done"
    /\ call.fn = "none"
    /\ call' = [fn |-> "assess_risk", arg |-> report.warnings \o <<w>>,
                ret |-> Returned(assess_risk(report.warnings \o <<w>>))]
    /\ UNCHANGED <<pc, url, normalized, parsed, url_lower, domain, warnings, report,
                   before>>
    /\ UNCHANGED elsewhere

\* normalize_url(u)
NormalizeUrl(u) ==
    /\ Idle
    /\ call' = [fn |-> "normalize_url", arg |-> u, ret |-> normalize_url(u)]
    /\ UNCHANGED <<pc, url, normalized, parsed, url_lower, domain, warnings, report,
                   before>>
    /\ UNCHANGED elsewhere

\* normalize_url(r) for the r that normalize_url has just returned
NormalizeAgain ==
    /\ call.fn = "normalize_url"
    /\ before.fn = "none"
    /\ ~call.ret.raised
    /\ before' = call
    /\ call' = [fn |-> "normalize_url", arg |-> call.ret.value,
                ret |-> normalize_url(call.ret.value)]
    /\ UNCHANGED <<pc, url, normalized, parsed, url_lower, domain, warnings, report>>
    /\ UNCHANGED elsewhere

\* has_suspicious_unicode(d)
HasSuspiciousUnicode(d) ==
    /\ Idle
    /\ call' = [fn |-> "has_suspicious_unicode", arg |-> d,
                ret |-> Returned(has_suspicious_unicode(d))]
    /\ UNCHANGED <<pc, url, normalized, parsed, url_lower, domain, warnings, report,
                   before>>
    /\ UNCHANGED elsewhere

\* ascii_skeleton(s)
AsciiSkeleton(s) ==
    /\ Idle
    /\ call' = [fn |-> "ascii_skeleton", arg |-> s, ret |-> Returned(ascii_skeleton(s))]
    /\ UNCHANGED <<pc, url, normalized, parsed, url_lower, domain, warnings, report,
                   before>>
    /\ UNCHANGED elsewhere

\* The keys of _ASCII_CONFUSABLES and _UNICODE_CONFUSABLES whose value is
\* the one letter c
Lookalikes(c) ==
    {k \in DOMAIN ASCII_CONFUSABLES : ASCII_CONFUSABLES[k] = <<c>>}
    \cup {k \in DOMAIN UNICODE_CONFUSABLES : UNICODE_CONFUSABLES[k] = <<c>>}

\* ascii_skeleton(t) for the label t that has the look-alike k in place of
\* the lower-case Latin letter at position i of the label just passed
AsciiSkeletonOfLookalike(i, k) ==
    /\ call.fn = "ascii_skeleton"
    /\ before.fn = "none"
    /\ i \in 1..Len(call.arg)
    /\ IsAsciiLower(call.arg[i])
    /\ k \in Lookalikes(call.arg[i])
    /\ before' = call
    /\ LET Substituted(t) ==
               call' = [fn |-> "ascii_skeleton", arg |-> t,
                        ret |-> Returned(ascii_skeleton(t))]
       IN Substituted([call.arg EXCEPT ![i] = k])
    /\ UNCHANGED <<pc, url, normalized, parsed, url_lower, domain, warnings, report>>
    /\ UNCHANGED elsewhere

\* _contains_brand_fragment(s, l)
ContainsBrandFragment(s, l) ==
    /\ Idle
    /\ call' = [fn |-> "_contains_brand_fragment", arg |-> <<s, l>>,
                ret |-> Returned(contains_brand_fragment(s, l))]
    /\ UNCHANGED <<pc, url, normalized, parsed, url_lower, domain, warnings, report,
                   before>>
    /\ UNCHANGED elsewhere

Next ==
    \/ \E u \in Urls : Begin(u)
    \/ CheckHost
    \/ CheckLength
    \/ CheckKeywords
    \/ CheckRedirects
    \/ CheckQueryParams
    \/ CheckDomainSpoof
    \/ Return
    \/ \E w \in ExtraWarnings : AssessRisk(w)
    \/ \E u \in Urls : NormalizeUrl(u)
    \/ NormalizeAgain
    \/ \E d \in SuspectDomains : HasSuspiciousUnicode(d)
    \/ \E s \in SkeletonLabels : AsciiSkeleton(s)
    \/ \E i \in 1..MaxLabel, k \in DOMAIN ASCII_CONFUSABLES \cup DOMAIN UNICODE_CONFUSABLES :
           AsciiSkeletonOfLookalike(i, k)
    \/ \E s \in FragmentSkeletons, l \in FragmentLabels : ContainsBrandFragment(s, l)

Spec == Init /\ [][Next]_vars

(***************************************************************************)
(* check_url_safety called from several threads at once: each call has its *)
(* own locals, and a thread switch may come between any two statements.    *)
(***************************************************************************)

\* the arguments of the concurrent calls
ConcurrentUrls ==
    { S(<<"h","t","t","p","s",":","/","/","e","x","a","m","p","l","e",".","c","o","m">>),
      S(<<"h","t","t","p",":","/","/","1","9","2",".","1","6","8",".","0",".","1","/","l","o","g","i","n","?","r","e","d","i","r","e","c","t","=","h","t","t","p",":","/","/","e","v","i","l",".","c","o","m">>),
      S(<<"h","t","t","p","s",":","/","/","m">>) \o <<237>> \o S(<<"c","r","o","s","o","f","t",".","c","o","m">>),
      S(<<"h","t","t","p",":","/","/","[">>) }

\* One `warnings` list for all the calls
SharedList(t) == 1

\* warnings: List[str] = []: the list call t appends to is its own
OwnList(t) == t

\* The variables of the single call
sequential == <<pc, url, normalized, parsed, url_lower, domain, warnings, report, call, before>>

\* The next statement of the call with the locals f, whose list holds ws:
\* the locals after it and the warnings it appends to the list
Statement(f, ws) ==
    LET Host(d) ==
            IF d.raised
            THEN [frame |-> [f EXCEPT !.pc = "raised", !.report = Raised],
                  appended |-> << >>]
            ELSE [frame |-> [f EXCEPT !.pc = "length", !.domain = d.value],
                  appended |-> check_ip_host(d.value)]
        Goes(to, appended) == [frame |-> [f EXCEPT !.pc = to], appended |-> appended]
    IN CASE f.pc = "host" -> Host(extract_domain(f.normalized))
         [] f.pc = "length" -> Goes("keywords", check_length(f.normalized))
         [] f.pc = "keywords" -> Goes("redirects", check_keywords(f.url_lower))
         [] f.pc = "redirects" -> Goes("query", check_redirects(f.url_lower))
         [] f.pc = "query" -> Goes("spoof", check_query_params(f.parsed))
         [] f.pc = "spoof" -> Goes("assess", check_domain_spoof(f.domain))
         [] f.pc = "assess" ->
                [frame |-> [f EXCEPT !.pc = "done", !.report = SecurityReport(ws)],
                 appended |-> << >>]

\* The frames after call t has made the step s
Stepped(t, s) ==
    [c \in 1..MaxCalls |->
        LET Appended(g) ==
                IF c = OwnList(t) THEN [g EXCEPT !.warnings = @ \o s.appended] ELSE g
        IN Appended(IF c = t THEN s.frame ELSE calls[c])]

\* Thread t calls check_url_safety(u): the call up to the scheme check
CallBegin(t, u) ==
    /\ calls[t].pc \in {"idle", "done", "raised"}
    /\ LET Parsed(n, p) ==
               IF n.raised \/ p.raised
               THEN [frame |-> [NoFrame EXCEPT !.pc = "raised", !.url = u, !.report = Raised],
                     appended |-> << >>]
               ELSE [frame |-> [NoFrame EXCEPT !.pc = "host", !.url = u,
                                               !.normalized = n.value, !.parsed = p,
                                               !.url_lower = Lower(n.value)],
                     appended |-> check_scheme(p)]
           Normalized(n) == Parsed(n, IF n.raised THEN NoParse ELSE UrlSplit(n.value))
       IN calls' = Stepped(t, Normalized(normalize_url(u)))
    /\ UNCHANGED <<sequential, tables, camera, web>>

\* The call of thread t executes its next statement
CallStep(t) ==
    /\ calls[t].pc \in {"host", "length", "keywords", "redirects", "query", "spoof", "assess"}
    /\ calls' = Stepped(t, Statement(calls[t], calls[OwnList(t)].warnings))
    /\ UNCHANGED <<sequential, tables, camera, web>>

NextConcurrent ==
    \/ \E t \in 1..MaxCalls, u \in ConcurrentUrls : CallBegin(t, u)
    \/ \E t \in 1..MaxCalls : CallStep(t)

SpecConcurrent == Init /\ [][NextConcurrent]_vars

(***************************************************************************)
(* safeqr/scanner.py, safeqr/utils/logger.py and the /scan route of        *)
(* safeqr/web.py                                                           *)
(***************************************************************************)

\* _decode_frame(frame), the frame given by the texts of its detections:
\* the first one that is not blank, stripped; << >> for None
decode_frame(detections) ==
    LET data == SelectSeq([n \in 1..Len(detections) |-> StrStrip(detections[n])],
                          LAMBDA d : d # << >>)
    IN IF data = << >> THEN << >> ELSE Head(data)

\* scan_from_file(path) on a file that exists: what it returns or that it
\* raises, and the entry it writes.  _write raises OSError when the log
\* file cannot be written.
scan_from_file(file, log_ok) ==
    LET Logged(payload) ==
            IF ~log_ok THEN [raised |-> TRUE, payload |-> payload, log |-> "none"]
            ELSE [raised |-> FALSE, payload |-> payload,
                  log |-> IF payload # << >> THEN "QR_SCANNED_FILE"
                          ELSE "WARNING/QR_NOT_FOUND_FILE"]
    IN IF file.contents # "image"
       THEN [raised |-> TRUE, payload |-> << >>, log |-> "none"]
       ELSE Logged(decode_frame(file.detections))

\* deque(maxlen=10)
RECENT_MAXLEN == 10

\* _recent_checks.append(x): the new entry last, the first one dropped from
\* a full deque
append(q, x) ==
    IF Len(q) >= RECENT_MAXLEN THEN Tail(q) \o <<x>> ELSE q \o <<x>>

\* _recent_checks.appendleft(x): the new entry first, the last one dropped
\* from a full deque
appendleft(q, x) ==
    IF Len(q) >= RECENT_MAXLEN THEN <<x>> \o SubSeq(q, 1, RECENT_MAXLEN - 1)
    ELSE <<x>> \o q

\* str.upper() of a risk level
RiskUpper(risk_level) ==
    CASE risk_level = "low" -> "LOW"
      [] risk_level = "medium" -> "MEDIUM"
      [] risk_level = "high" -> "HIGH"

\* the uploads: no bytes, bytes that are no image, and images with the
\* texts of their QR codes (texts without a host name, whose normalized
\* form differs from the text)
WebFiles ==
    { [contents |-> "empty", detections |-> << >>],
      [contents |-> "unreadable", detections |-> << >>],
      [contents |-> "image", detections |-> <<S(<<" "," ">>)>>],
      [contents |-> "image", detections |-> <<S(<<"h","t","t","p","s",":","/","a">>)>>],
      [contents |-> "image",
       detections |-> <<S(<<" ">>), S(<<" ","f","i","l","e",":","/","/","/","e","t","c","/","p","a","s","s","w","d"," ">>)>>],
      [contents |-> "image", detections |-> <<S(<<"h","t","t","p",":","/","/","[">>)>>] }

\* POST /scan with the upload `file`, the log file writable or not while
\* the request is handled: the whole of scan_route up to the context it
\* renders, or the exception it lets out of its except clause.
ScanRoute(file, log_ok) ==
    LET Failed(payload) ==
            IF log_ok
            THEN [web EXCEPT !.decoded = payload,
                             !.response = [kind |-> "error", scan_result |-> << >>,
                                           security_report |-> NoReport]]
            ELSE [web EXCEPT !.decoded = payload,
                             !.response = [kind |-> "crash", scan_result |-> << >>,
                                           security_report |-> NoReport]]
        Checked(scan, checked, norm) ==
            IF checked.raised THEN Failed(scan.payload)
            ELSE [web EXCEPT !.decoded = scan.payload,
                             !.recent_checks =
                                 appendleft(@, [url |-> norm.value,
                                                risk |-> RiskUpper(checked.risk_level)]),
                             !.response = [kind |-> "page", scan_result |-> scan.payload,
                                           security_report |-> checked]]
        Scanned(scan) ==
            IF scan.raised THEN Failed(scan.payload)
            ELSE IF scan.payload = << >>
            THEN [web EXCEPT !.decoded = << >>,
                             !.response = [kind |-> "not_found", scan_result |-> << >>,
                                           security_report |-> NoReport]]
            ELSE Checked(scan, check_url_safety(scan.payload), normalize_url(scan.payload))
    IN /\ web' = IF file.contents = "empty" THEN Failed(<< >>)
                 ELSE Scanned(scan_from_file(file, log_ok))
       /\ UNCHANGED <<sequential, calls, tables, camera>>

NextWeb == \E file \in WebFiles, log_ok \in BOOLEAN : ScanRoute(file, log_ok)

SpecWeb == Init /\ [][NextWeb]_vars

\* The longest timeout, in hundredths of a second
MaxTimeout == 14

\* the timeouts of scan_from_camera, in hundredths of a second
Timeouts == {-5, 0, 3, MaxTimeout - 4, MaxTimeout}

\* int(timeout * 30) for a timeout in hundredths of a second: the product
\* truncated toward zero
max_frames_of(timeout) ==
    IF timeout >= 0 THEN (timeout * 30) \div 100 ELSE -((-timeout * 30) \div 100)

\* what capture.read() and _decode_frame(frame) can do with a frame: read()
\* returns no frame or raises, the decoder raises, the frame holds no QR
\* code, a blank one, or one with a text
CameraFrames ==
    { [read |-> "raises", decode |-> "ok", detections |-> << >>],
      [read |-> "failed", decode |-> "ok", detections |-> << >>],
      [read |-> "ok", decode |-> "raises", detections |-> << >>],
      [read |-> "ok", decode |-> "ok", detections |-> << >>],
      [read |-> "ok", decode |-> "ok", detections |-> <<S(<<" ">>)>>],
      [read |-> "ok", decode |-> "ok", detections |-> <<S(<<" ","h","t","t","p","s",":","/","/","e","x","a","m","p","l","e",".","c","o","m"," ">>)>>] }

\* scan_from_camera(timeout) up to the loop: the camera opened or not
OpenCamera(timeout, opened) ==
    /\ camera.pc = "idle"
    /\ camera' = IF opened
                 THEN [camera EXCEPT !.pc = "loop", !.timeout = timeout,
                                     !.max_frames = max_frames_of(timeout)]
                 ELSE [camera EXCEPT !.pc = "unavailable", !.timeout = timeout,
                                     !.result = [kind |-> "raised", value |-> << >>]]
    /\ UNCHANGED <<sequential, calls, tables, web>>

\* One pass of the while loop on the frame the camera gives, the log file
\* writable or not; on an exception or the break also the finally clause
\* and the rest of the function.
ReadFrame(frame, log_ok) ==
    /\ camera.pc = "loop"
    /\ camera.frame_count < camera.max_frames
    /\ LET Raise(c) ==
               [c EXCEPT !.pc = "raised", !.released = @ + 1,
                         !.result = [kind |-> "raised", value |-> << >>]]
           Decoded(c, payload) ==
               IF payload = << >> THEN c
               ELSE IF ~log_ok THEN Raise([c EXCEPT !.payload = payload])
               ELSE [c EXCEPT !.pc = "returned", !.payload = payload, !.released = @ + 1,
                              !.result = [kind |-> "returned", value |-> payload]]
           Read(c) ==
               IF frame.read = "raises" THEN Raise(c)
               ELSE IF frame.read = "failed"
               THEN (IF log_ok
                     THEN [c EXCEPT !.frame_count = @ + 1]
                     ELSE Raise([c EXCEPT !.frame_count = @ + 1]))
               ELSE IF frame.decode = "raises"
               THEN Raise([c EXCEPT !.frame_count = @ + 1])
               ELSE Decoded([c EXCEPT !.frame_count = @ + 1], decode_frame(frame.detections))
       IN camera' = Read([camera EXCEPT !.frames = Append(@, frame)])
    /\ UNCHANGED <<sequential, calls, tables, web>>

\* The loop ends with frame_count at max_frames: the finally clause, the
\* warning that nothing was found, return None
Exhausted(log_ok) ==
    /\ camera.pc = "loop"
    /\ camera.frame_count >= camera.max_frames
    /\ camera' = IF log_ok
                 THEN [camera EXCEPT !.pc = "returned", !.released = @ + 1,
                                     !.result = [kind |-> "returned", value |-> << >>]]
                 ELSE [camera EXCEPT !.pc = "raised", !.released = @ + 1,
                                     !.result = [kind |-> "raised", value |-> << >>]]
    /\ UNCHANGED <<sequential, calls, tables, web>>

NextCamera ==
    \/ \E timeout \in Timeouts, opened \in BOOLEAN : OpenCamera(timeout, opened)
    \/ \E frame \in CameraFrames, log_ok \in BOOLEAN : ReadFrame(frame, log_ok)
    \/ \E log_ok \in BOOLEAN : Exhausted(log_ok)

\* The thread that runs scan_from_camera keeps running
SpecCamera == Init /\ [][NextCamera]_vars /\ WF_vars(NextCamera)

(***************************************************************************)
(* The claims of the specification, one formula each.                      *)
(***************************************************************************)

\* C1: normalize_url is idempotent: normalizing what normalize_url returned
\* returns it unchanged, for every input u.
NormalizeIdempotent ==
    (call.fn = "normalize_url" /\ before.fn = "normalize_url")
        => call.ret = Returned(before.ret.value)

\* C2: check_url_safety never raises, however malformed its input: every
\* call returns a report with the fields safe, warnings and risk_level, the
\* last one of low, medium and high.
NeverRaises ==
    /\ pc # "raised"
    /\ pc = "done" =>
          /\ ~report.raised
          /\ {"safe", "warnings", "risk_level"} \subseteq DOMAIN report
          /\ report.safe \in BOOLEAN
          /\ report.risk_level \in {"low", "medium", "high"}

\* The order low < medium < high of the risk levels
RiskRank(level) == CASE level = "low" -> 0 [] level = "medium" -> 1 [] level = "high" -> 2

\* The risk level the specification gives a list of n warnings
RiskOf(n) == IF n = 0 THEN "low" ELSE IF n <= 2 THEN "medium" ELSE "high"

\* C3: a returned report is a function of its number n of warnings: safe
\* iff n = 0, risk_level low iff n = 0, medium iff 1 <= n <= 2, high iff
\* n >= 3; and the risk level of a list with one more warning is not lower.
ReportFromCount ==
    /\ pc = "done" =>
          /\ report.safe = (Len(report.warnings) = 0)
          /\ report.risk_level = RiskOf(Len(report.warnings))
    /\ call.fn = "assess_risk" =>
          /\ call.ret.value = RiskOf(Len(call.arg))
          /\ RiskRank(call.ret.value) >= RiskRank(report.risk_level)

\* C3 happens: a report of two warnings, medium, and the list with one
\* more warning, assessed high
ReportFromCountWitness ==
    /\ pc = "done"
    /\ Len(report.warnings) = 2
    /\ report.risk_level = "medium"
    /\ call.fn = "assess_risk"
    /\ call.ret.value = "high"

\* A string of whitespace characters only, the empty string included
IsBlank(s) == \A i \in 1..Len(s) : IsSpace(s[i])

\* C4: normalize_url returns the empty string for the empty input and for
\* every input made of whitespace characters only.
BlankNormalizesToEmpty ==
    (call.fn = "normalize_url" /\ IsBlank(call.arg)) => call.ret = Returned(<< >>)

\* The known brands that the decoded domain ends with
BrandsEndingDomain ==
    {n \in 1..Len(KNOWN_BRANDS) : EndsWith(to_unicode_domain(domain), KNOWN_BRANDS[n])}

\* A warning that names the brand: that the domain looks like it, or that
\* the domain holds a fragment like its label
NamesBrand(w, brand) ==
    \/ w.kind = "brand_similar" /\ w.b = brand
    \/ w.kind = "brand_fragment" /\ w.b = Split1(brand, 46)[1]

\* C5: when the decoded domain ends with a registered brand b,
\* _check_domain_spoof appends no warning that names b, neither the
\* looks-like warning nor the fragment warning.
NoWarningForOwnBrand ==
    pc \in {"assess", "done"} =>
        \A n \in BrandsEndingDomain :
            \A i \in 1..Len(warnings) : ~NamesBrand(warnings[i], KNOWN_BRANDS[n])

\* C5 happens: _check_domain_spoof has run on a proper subdomain of a brand
\* whose label is a fragment of the domain's skeleton
NoWarningForOwnBrandWitness ==
    /\ pc = "assess"
    /\ \E n \in BrandsEndingDomain :
          /\ domain # KNOWN_BRANDS[n]
          /\ contains_brand_fragment(ascii_skeleton(to_unicode_domain(domain)),
                                     Split1(KNOWN_BRANDS[n], 46)[1])

\* The place of a warning's check in the order the checks run
CheckRank(kind) ==
    CASE kind = "no_https" -> 1
      [] kind = "ip_host" -> 2
      [] kind = "too_long" -> 3
      [] kind = "keyword" -> 4
      [] kind = "redirect" -> 5
      [] kind \in {"param_redirect", "param_http"} -> 6
      [] kind \in {"brand_similar", "brand_fragment"} -> 7
      [] kind = "punycode" -> 8

\* The place of a word in _SUSPICIOUS_WORDS
WordIndex(word) == CHOOSE n \in 1..Len(SUSPICIOUS_WORDS) : SUSPICIOUS_WORDS[n] = word

\* The warning is one the parameter <<key, value>> can give
FromParameter(w, param) ==
    /\ w.a = param[1]
    /\ w.kind = "param_http" => w.b = param[2]

RECURSIVE InParameterOrder(_, _)
\* The warnings ws come from the parameters params, in the parameters' order
InParameterOrder(ws, params) ==
    IF ws = << >> THEN TRUE
    ELSE IF params = << >> THEN FALSE
    ELSE IF FromParameter(Head(ws), Head(params))
    THEN InParameterOrder(Tail(ws), params)
    ELSE InParameterOrder(ws, Tail(params))

\* The list ws is in the order the checks of check_url_safety run in
InCheckOrder(ws) ==
    /\ \A i, j \in 1..Len(ws) :
          i < j =>
             /\ CheckRank(ws[i].kind) <= CheckRank(ws[j].kind)
             /\ (ws[i].kind = "keyword" /\ ws[j].kind = "keyword")
                   => WordIndex(ws[i].a) < WordIndex(ws[j].a)
    /\ InParameterOrder(SelectSeq(ws, LAMBDA w : CheckRank(w.kind) = 6),
                        parse_qsl(parsed.query))

\* The list b is the list a with warnings appended
Appended(a, b) == Len(a) <= Len(b) /\ SubSeq(b, 1, Len(a)) = a

\* C6: the warnings are in check-execution order and never reordered:
\* non-HTTPS, IP host, length, keywords in list order, redirect pattern,
\* query parameters in parameter order, brand similarity, punycode/unicode;
\* a check only appends to the list, and the report carries the list as is.
WarningsInCheckOrder ==
    /\ [](InCheckOrder(warnings) /\ (pc = "done" => report.warnings = warnings))
    /\ [][Appended(warnings, warnings')]_vars

\* C6 happens: a report with warnings of four checks or more, a
\* query-parameter warning and a later one among them
WarningsInCheckOrderWitness ==
    /\ pc = "done"
    /\ Cardinality({CheckRank(report.warnings[i].kind) : i \in 1..Len(report.warnings)}) >= 3
    /\ \E i, j \in 1..Len(report.warnings) :
          /\ i < j
          /\ CheckRank(report.warnings[i].kind) = 6
          /\ CheckRank(report.warnings[j].kind) = 6

\* The authority without its userinfo: what follows the last "@"
HostPort(netloc) == From(netloc, RFindChar(netloc, 64) + 1)

\* The host of an authority [userinfo "@"] host [":" port], as written: an
\* IP literal with its brackets, any other host up to the colon of the port
HostText(netloc) ==
    LET hostport == HostPort(netloc)
        close == Find(hostport, S(<<"]">>), 1)
    IN IF StartsWith(hostport, S(<<"[">>)) /\ close # 0
       THEN SubSeq(hostport, 1, close)
       ELSE Split1(hostport, 58)[1]

\* The host without the brackets of an IP literal
HostName(netloc) ==
    LET host == HostText(netloc)
    IN IF StartsWith(host, S(<<"[">>)) THEN SubSeq(host, 2, Len(host) - 1) ELSE host

\* check_url_safety has called extract_domain on the normalized URL
HostExtracted == pc \in {"length", "keywords", "redirects", "query", "spoof", "assess", "done"}

\* C7: extract_domain on a normalized URL returns exactly the host of the
\* URL, lower-cased and without the port, also behind userinfo and for a
\* bracketed IPv6 literal (with its brackets or without them), and the
\* empty string when the URL has no host.
ExtractDomainIsHost ==
    HostExtracted =>
        domain \in {Lower(HostText(parsed.netloc)), Lower(HostName(parsed.netloc))}

\* The number of IP-host warnings in a list
IpHostWarnings(ws) == Cardinality({i \in 1..Len(ws) : ws[i].kind = "ip_host"})

\* C8: check_url_safety appends the IP-host warning iff the host of the
\* normalized URL is a valid IPv4 or IPv6 literal, with or without a port,
\* and appends it at most once.
IpHostWarnedIffLiteral ==
    HostExtracted =>
        IpHostWarnings(warnings) =
            IF IpAddressOk(Lower(HostName(parsed.netloc))) THEN 1 ELSE 0

\* A code point of the Greek and Coptic block or of the Cyrillic blocks
\* (Cyrillic and Cyrillic Supplement)
IsGreekOrCyrillic(c) == c \in 880..1023 \/ c \in 1024..1327

\* C9: has_suspicious_unicode(domain) is true iff the decoded domain has a
\* Cyrillic or Greek code point, of either case, accented Greek included.
SuspiciousIffGreekOrCyrillic ==
    call.fn = "has_suspicious_unicode" =>
        call.ret.value =
            (\E i \in 1..Len(to_unicode_domain(call.arg)) :
                 IsGreekOrCyrillic(to_unicode_domain(call.arg)[i]))

\* C10: ascii_skeleton is the same for a label that is no punycode label
\* and for the label with a lower-case Latin letter replaced by a character
\* the tables map to exactly that letter.
SkeletonKeptByLookalike ==
    (call.fn = "ascii_skeleton" /\ before.fn = "ascii_skeleton"
        /\ ~contains_punycode(before.arg))
        => call.ret.value = before.ret.value

\* The word occurs in the text, at any position
OccursIn(word, text) ==
    \E i \in 1..(Len(text) - Len(word) + 1) : SubSeq(text, i, i + Len(word) - 1) = word

\* The keyword warnings of a list, in their order
KeywordWarnings(ws) == SelectSeq(ws, LAMBDA w : w.kind = "keyword")

\* check_url_safety has run the keyword check
KeywordsChecked == pc \in {"redirects", "query", "spoof", "assess", "done"}

\* C12: the keyword check appends exactly one warning for each configured
\* keyword that is a substring of the lower-cased normalized URL, whatever
\* the place and the number of its occurrences, and none for the others.
OneWarningPerKeyword ==
    KeywordsChecked =>
        \A n \in 1..Len(SUSPICIOUS_WORDS) :
            Cardinality({i \in 1..Len(KeywordWarnings(warnings)) :
                            KeywordWarnings(warnings)[i].a = SUSPICIOUS_WORDS[n]})
                = IF OccursIn(SUSPICIOUS_WORDS[n], Lower(normalized)) THEN 1 ELSE 0

\* C12 happens: the check has run on a URL with three keywords, two of
\* them inside one word of the host name
OneWarningPerKeywordWitness ==
    /\ pc = "redirects"
    /\ Len(KeywordWarnings(warnings)) = 3
    /\ \E i \in 1..Len(normalized), j \in 1..Len(normalized) :
          /\ i < j
          /\ SubSeq(normalized, i, i + 3) = SUSPICIOUS_WORDS[7]
          /\ SubSeq(normalized, j, j + 6) = SUSPICIOUS_WORDS[9]

\* The brand warnings of a list, in their order
BrandWarnings(ws) == SelectSeq(ws, LAMBDA w : w.kind \in {"brand_similar", "brand_fragment"})

\* check_url_safety has run _check_domain_spoof
SpoofChecked == pc \in {"assess", "done"}

\* The whole-domain test of brand n on the decoded domain
LooksLikeBrand(n) == RatioLooksLike(Ratio(to_unicode_domain(domain), KNOWN_BRANDS[n]))

\* Brand n qualifies: the decoded domain does not end with it and passes
\* its whole-domain test or its fragment test
BrandQualifies(n) ==
    /\ ~EndsWith(to_unicode_domain(domain), KNOWN_BRANDS[n])
    /\ \/ LooksLikeBrand(n)
       \/ contains_brand_fragment(ascii_skeleton(to_unicode_domain(domain)),
                                  Split1(KNOWN_BRANDS[n], 46)[1])

\* The warning of brand n: by the whole-domain test or, failing that, by
\* the fragment test
WarningOfBrand(n) ==
    IF LooksLikeBrand(n)
    THEN Warning("brand_similar", to_unicode_domain(domain), KNOWN_BRANDS[n])
    ELSE Warning("brand_fragment", to_unicode_domain(domain), Split1(KNOWN_BRANDS[n], 46)[1])

\* C14: _check_domain_spoof appends at most one brand warning, the one of
\* the first brand in registry order that qualifies, and none for a later
\* brand, whatever its score.
FirstQualifyingBrandOnly ==
    SpoofChecked =>
        LET qualifying == {n \in 1..Len(KNOWN_BRANDS) : BrandQualifies(n)}
        IN BrandWarnings(warnings) =
               IF qualifying = {} THEN << >> ELSE <<WarningOfBrand(MinOf(qualifying))>>

\* C14 happens: two brands qualify, the later one with the higher ratio
FirstQualifyingBrandOnlyWitness ==
    /\ pc = "assess"
    /\ \E n, m \in 1..Len(KNOWN_BRANDS) :
          /\ n < m
          /\ BrandQualifies(n)
          /\ BrandQualifies(m)
          /\ LooksLikeBrand(m)
          /\ LET rn == Ratio(to_unicode_domain(domain), KNOWN_BRANDS[n])
                 rm == Ratio(to_unicode_domain(domain), KNOWN_BRANDS[m])
             IN rn[1] * rm[2] < rm[1] * rn[2]

\* The block-matching ratio <<2 * M, len(d) + len(b)>> of the decoded
\* domain and brand n is strictly between 0.82 and 1
RatioInRange(n) ==
    LET d == to_unicode_domain(domain)
        b == KNOWN_BRANDS[n]
        M == MatchedLength(d, b, 1, Len(d), 1, Len(b))
    IN Len(d) + Len(b) > 0 /\ 100 * 2 * M > 82 * (Len(d) + Len(b)) /\ 2 * M < Len(d) + Len(b)

\* The list has the warning that the decoded domain looks like brand n
HasLooksLike(ws, n) ==
    \E i \in 1..Len(ws) : ws[i].kind = "brand_similar" /\ ws[i].b = KNOWN_BRANDS[n]

\* mícrosoft.com, the spoof of the test
AccentedMicrosoft == S(<<"m">>) \o <<237>> \o S(<<"c","r","o","s","o","f","t",".","c","o","m">>)

\* C15 as stated: for a brand b the decoded domain does not end with, the
\* looks-like warning for b is produced exactly when the ratio is strictly
\* between 0.82 and 1; the domain with one accented letter gets it.
LooksLikeIffRatioInRange ==
    SpoofChecked =>
        /\ \A n \in 1..Len(KNOWN_BRANDS) :
              ~EndsWith(to_unicode_domain(domain), KNOWN_BRANDS[n])
                  => (HasLooksLike(warnings, n) <=> RatioInRange(n))
        /\ domain = AccentedMicrosoft => HasLooksLike(warnings, 1)

\* C15 amended: the looks-like warning for b is produced exactly when the
\* ratio is strictly between 0.82 and 1 and no brand before b in the
\* registry qualifies; the domain with one accented letter gets it.
LooksLikeIffRatioInRangeAndFirst ==
    SpoofChecked =>
        /\ \A n \in 1..Len(KNOWN_BRANDS) :
              ~EndsWith(to_unicode_domain(domain), KNOWN_BRANDS[n])
                  => (HasLooksLike(warnings, n)
                         <=> (RatioInRange(n) /\ \A m \in 1..(n - 1) : ~BrandQualifies(m)))
        /\ domain = AccentedMicrosoft => HasLooksLike(warnings, 1)

\* C15 happens: _check_domain_spoof has run on the domain with one accented
\* letter and has warned that it looks like microsoft.com
LooksLikeWitness ==
    /\ pc = "assess"
    /\ domain = AccentedMicrosoft
    /\ RatioInRange(1)
    /\ HasLooksLike(warnings, 1)

\* The string with its alphanumeric characters only
Alphanumerics(s) == SelectSeq(s, IsAlnum)

\* Some window of `longer` as long as `shorter` has a block-matching ratio
\* of at least 0.85 against `shorter`
SomeWindowSimilar(longer, shorter) ==
    \E i \in 1..(Len(longer) - Len(shorter) + 1) :
        LET Similar(w) ==
                100 * 2 * MatchedLength(w, shorter, 1, Len(w), 1, Len(shorter))
                    >= 85 * (Len(w) + Len(shorter))
        IN Similar(SubSeq(longer, i, i + Len(shorter) - 1))

\* What C16 says _contains_brand_fragment returns for the compacted domain
\* skeleton d and the compacted brand-label skeleton b
FragmentSimilar(d, b) ==
    /\ d # << >>
    /\ b # << >>
    /\ \/ Contains(d, b)
       \/ IF Len(d) < Len(b) THEN SomeWindowSimilar(b, d) ELSE SomeWindowSimilar(d, b)

\* C16: _contains_brand_fragment returns true iff both compacted strings
\* are non-empty and either the brand fragment is a substring of the
\* compacted domain or some window of the longer string, as long as the
\* shorter one, has ratio >= 0.85 against the shorter one; it returns false
\* when either compacted string is empty.
FragmentIffSubstringOrWindow ==
    call.fn = "_contains_brand_fragment" =>
        /\ ~call.ret.raised
        /\ call.ret.value
              <=> FragmentSimilar(Alphanumerics(call.arg[1]),
                                  Alphanumerics(ascii_skeleton(call.arg[2])))
        /\ (Alphanumerics(call.arg[1]) = << >>
               \/ Alphanumerics(ascii_skeleton(call.arg[2])) = << >>)
              => ~call.ret.value

\* C16 happens: a domain shorter than the brand label, not holding it, is
\* found similar to one of the label's windows
FragmentWitness ==
    /\ call.fn = "_contains_brand_fragment"
    /\ call.ret.value
    /\ Len(Alphanumerics(call.arg[1])) < Len(Alphanumerics(call.arg[2]))
    /\ ~Contains(Alphanumerics(call.arg[1]), Alphanumerics(call.arg[2]))

\* The warnings of the query-parameter check in the list
ParamWarnings(ws) == SelectSeq(ws, LAMBDA w : w.kind \in {"param_redirect", "param_http"})

\* _check_query_params has run
ParamsChecked == pc \in {"spoof", "assess", "done"}

\* http://
InsecureScheme == S(<<"h","t","t","p",":","/","/">>)

\* The redirect-parameter warning of a key that lower-cases to a member of
\* the name set, then the insecure-redirect warning of a value for which
\* `insecure` holds, for each parameter in order
WarningsOfParams(params, insecure(_)) ==
    Concat([n \in 1..Len(params) |->
        (IF Lower(params[n][1]) \in SUSPICIOUS_PARAMS
         THEN <<[kind |-> "param_redirect", a |-> params[n][1], b |-> << >>]>> ELSE << >>)
        \o (IF insecure(params[n][2])
            THEN <<[kind |-> "param_http", a |-> params[n][1], b |-> params[n][2]]>>
            ELSE << >>)])

\* C17 as stated: for each parameter in order, a key that lower-cases to a
\* redirect-parameter name appends one warning and a value that contains
\* http:// appends a separate one; a parameter with neither appends
\* nothing, and an empty query appends no query-parameter warning.
ParamWarningsAsStated ==
    ParamsChecked =>
        /\ ParamWarnings(warnings)
              = WarningsOfParams(parse_qsl(parsed.query),
                                 LAMBDA v : Contains(v, InsecureScheme))
        /\ parsed.query = << >> => ParamWarnings(warnings) = << >>

\* C17 amended: as stated, with the value tested in lower case: a value
\* that contains http:// in any letter case appends the insecure-redirect
\* warning.
ParamWarningsAnyCase ==
    ParamsChecked =>
        /\ ParamWarnings(warnings)
              = WarningsOfParams(parse_qsl(parsed.query),
                                 LAMBDA v : Contains(Lower(v), InsecureScheme))
        /\ parsed.query = << >> => ParamWarnings(warnings) = << >>

\* C17 happens: one parameter has got both warnings, the redirect-parameter
\* one first
ParamWarningsWitness ==
    /\ pc = "spoof"
    /\ \E i \in 1..(Len(warnings) - 1) :
          /\ warnings[i].kind = "param_redirect"
          /\ warnings[i + 1].kind = "param_http"
          /\ warnings[i + 1].a = warnings[i].a
          /\ Contains(warnings[i + 1].b, InsecureScheme)

\* C11: under any interleaving of concurrent calls, each call returns the
\* report it would return when run alone on its input (so no warning of
\* another call is in it), and the brand, keyword and redirect-parameter
\* tables are unchanged.
CallsIndependent ==
    /\ tables = [words |-> SUSPICIOUS_WORDS, brands |-> KNOWN_BRANDS,
                 params |-> SUSPICIOUS_PARAMS]
    /\ \A t \in 1..MaxCalls :
          calls[t].pc \in {"done", "raised"}
              => calls[t].report = check_url_safety(calls[t].url)

\* C11 happens: a call has returned a report with warnings while another
\* call, on another URL and with other warnings so far, is between two of
\* its checks
CallsIndependentWitness ==
    \E t, o \in 1..MaxCalls :
        /\ calls[t].pc = "done"
        /\ calls[t].report.warnings # << >>
        /\ calls[o].pc = "query"
        /\ calls[o].url # calls[t].url
        /\ calls[o].warnings # << >>
        /\ \E i \in 1..Len(calls[o].warnings) :
              \A j \in 1..Len(calls[t].report.warnings) :
                  calls[t].report.warnings[j] # calls[o].warnings[i]

\* C13: a logger write failure never changes or prevents a classification
\* result: a request whose file holds a decodable QR payload is answered
\* with that payload and its security report, whether or not the log file
\* can be written.
LogFailureHarmless ==
    (web.decoded # << >> /\ ~check_url_safety(web.decoded).raised)
        => /\ web.response.kind = "page"
           /\ web.response.scan_result = web.decoded
           /\ web.response.security_report = check_url_safety(web.decoded)

\* The entry of the recent-checks list for the payload p
RecentEntry(p) ==
    [url |-> normalize_url(p).value, risk |-> RiskUpper(check_url_safety(p).risk_level)]

\* The request just answered decoded a non-empty payload and did not fail
\* with an exception
DecodedAndAnswered(w) ==
    w.decoded # << >> /\ w.response.kind \notin {"error", "crash"}

\* C19: the recent-checks list holds at most 10 entries, newest first: a
\* request that decodes a non-empty payload puts its (normalized URL,
\* upper-cased risk) pair in front, the oldest entry leaving a full list;
\* a request that finds no QR code, uploads an empty file or fails with an
\* exception leaves the list unchanged.
RecentChecksNewestFirst ==
    /\ [](Len(web.recent_checks) <= 10)
    /\ [][IF DecodedAndAnswered(web')
          THEN web'.recent_checks
                   = SubSeq(<<RecentEntry(web'.decoded)>> \o web.recent_checks, 1,
                            IF Len(web.recent_checks) < 10
                            THEN Len(web.recent_checks) + 1 ELSE 10)
          ELSE web'.recent_checks = web.recent_checks]_vars

\* C19 happens: the list is full, with different entries, and the request
\* just answered has put its entry in front
RecentChecksWitness ==
    /\ Len(web.recent_checks) = 10
    /\ DecodedAndAnswered(web)
    /\ web.recent_checks[1] = RecentEntry(web.decoded)
    /\ web.recent_checks[2] # web.recent_checks[1]
    /\ web.recent_checks[10] # web.recent_checks[1]

\* The frame decodes to a non-empty payload
Decodes(frame) ==
    frame.read = "ok" /\ frame.decode = "ok" /\ decode_frame(frame.detections) # << >>

\* int(timeout * 30) frames, none for a negative product
FrameBudget ==
    IF camera.timeout <= 0 THEN 0 ELSE (camera.timeout * 30) \div 100

\* C18: once the camera is open scan_from_camera terminates; it reads at
\* most int(timeout * 30) frames, failed reads included; it stops at the
\* first frame that decodes to a non-empty payload and returns that
\* payload; it returns None when the budget is used up without a decode;
\* and it releases the capture exactly once on every exit path.
CameraScanAsClaimed ==
    /\ (camera.pc = "loop") ~> (camera.pc \in {"returned", "raised"})
    /\ [](camera.pc \in {"loop", "returned", "raised"} =>
            /\ Len(camera.frames) <= FrameBudget
            /\ camera.pc = "loop" =>
                  /\ camera.released = 0
                  /\ \A i \in 1..Len(camera.frames) : ~Decodes(camera.frames[i])
            /\ camera.pc # "loop" =>
                  /\ camera.released = 1
                  /\ \A i \in 1..Len(camera.frames) :
                        Decodes(camera.frames[i]) =>
                            /\ i = Len(camera.frames)
                            /\ camera.result
                                  = [kind |-> "returned",
                                     value |-> decode_frame(camera.frames[i].detections)]
                  /\ (\A i \in 1..Len(camera.frames) :
                         /\ ~Decodes(camera.frames[i])
                         /\ camera.frames[i].read # "raises"
                         /\ camera.frames[i].decode # "raises")
                        => /\ Len(camera.frames) = FrameBudget
                           /\ camera.result = [kind |-> "returned", value |-> << >>])

====
